---- MODULE Spec2Model ----
(***************************************************************************)
(* Model of the IKARUS quadrotor firmware: the firmware supervisor         *)
(* (IKARUS_Firmware::task), the motor output layer                         *)
(* (IKARUS_MotorController), the command dispatcher                        *)
(* (IKARUS_CommunicationManager::processBinaryMessage), the link receiver  *)
(* (MessageTask) and the transmit path (UART_Send).                        *)
(*                                                                         *)
(* Tasks are preemptible and of equal priority, so the model interleaves   *)
(* them at every access to memory that another task can touch.  Code that  *)
(* touches only the executing task's own data is folded into the step of   *)
(* the next shared access.                                                 *)
(***************************************************************************)
EXTENDS Integers, Sequences, FiniteSets, TLC

(***************************************************************************)
(* Program constants                                                       *)
(***************************************************************************)
IKARUS_MSG_START_BYTE == 170
IKARUS_MSG_MAX_PAYLOAD == 100
\* sizeof(ikarus_message_t): 3 header bytes, 100 payload bytes, 1 crc byte
FRAME_SIZE == 104

IKARUS_MSG_ARMING == 0
IKARUS_MSG_THRUST == 1
IKARUS_MSG_PITCH == 2
IKARUS_MSG_ROLL == 3
IKARUS_MSG_YAW == 4
IKARUS_MSG_MOTOR1 == 5
IKARUS_MSG_MOTOR2 == 6
IKARUS_MSG_MOTOR3 == 7
IKARUS_MSG_MOTOR4 == 8
IKARUS_MSG_SAMPLE_UPDATE == 10
\* The two enumerators below are used by processBinaryMessage but their
\* declaration is not part of the available sources; any two values distinct
\* from the ones above give the same behaviour.
IKARUS_MAG_CALIBRATE == 11
IKARUS_SPECIAL_COMMAND == 12

\* for (uint8_t i = 0; i < 160; i++) in the UNARMED case
ARM_CONFIRMATIONS == 160
\* if (t1 > 300) t1 = 300; in setThrust
THRUST_LIMIT == 300
\* if (samples_counter >= 10) in the RUNNING case
SAMPLE_PERIOD == 10
\* osMessageQueueNew(10, TX_BUFFER_SIZE, nullptr)
TX_QUEUE_LEN == 10
RX_BUFFER_SIZE == 128
RX_RING_SIZE == 512

(***************************************************************************)
(* Bounds of the model                                                     *)
(***************************************************************************)
\* number of frames the host sends in one behaviour
MaxMsgs == 3
\* number of RUNNING periods in which the control law runs, in one behaviour
MaxPeriods == 2
\* the number of bytes the host sends in a run of the receive path
MaxRx == 130

Byte == 0..255
Motors == 1..4

(***************************************************************************)
(* 32-bit floats, as the four little-endian payload bytes that memcpy      *)
(* moves into a float.                                                     *)
(***************************************************************************)
Pow2(n) == 2 ^ n

F32Sign(b) == b[4] \div 128
F32Exp(b) == (b[4] % 128) * 2 + (b[3] \div 128)
F32Man(b) == (b[3] % 128) * 65536 + b[2] * 256 + b[1]
F32Sig(b) == 8388608 + F32Man(b)

F32IsNaN(b) == F32Exp(b) = 255 /\ F32Man(b) # 0
\* magnitude of 2^31 or more (infinity included)
F32IsBig(b) == F32Exp(b) >= 158 /\ ~F32IsNaN(b)

\* integer part of the magnitude, for magnitudes below 2^31
F32Trunc(b) ==
    IF F32Exp(b) < 127 THEN 0
    ELSE IF F32Exp(b) <= 150 THEN F32Sig(b) \div Pow2(150 - F32Exp(b))
    ELSE F32Sig(b) * Pow2(F32Exp(b) - 150)

\* the magnitude has a fractional part
F32HasFrac(b) ==
    IF F32Exp(b) = 0 THEN F32Man(b) # 0
    ELSE IF F32Exp(b) < 127 THEN TRUE
    ELSE IF F32Exp(b) < 150 THEN F32Sig(b) % Pow2(150 - F32Exp(b)) # 0
    ELSE FALSE

\* the comparison  t > 300  of setThrust
F32GreaterThanLimit(b) ==
    /\ ~F32IsNaN(b)
    /\ F32Sign(b) = 0
    /\ \/ F32IsBig(b)
       \/ F32Trunc(b) > THRUST_LIMIT
       \/ F32Trunc(b) = THRUST_LIMIT /\ F32HasFrac(b)

\* two's-complement wrap of a negative integer -n into 16 bits
Wrap16Neg(n) == (65536 - (n % 65536)) % 65536

\* Values a float-to-unsigned conversion can store in a uint16_t.  The
\* conversion is defined when the truncated value is representable; otherwise
\* the behaviour is undefined and the result depends on the build: the
\* saturating unsigned conversion instruction gives 0 or all ones, a signed
\* conversion followed by truncation gives the wrapped value.
F32ToU16(b) ==
    IF F32IsNaN(b) THEN {0}
    ELSE IF F32Sign(b) = 1
         THEN IF F32IsBig(b) THEN {0}
              ELSE IF F32Trunc(b) = 0 THEN {0}
              ELSE {0, Wrap16Neg(F32Trunc(b))}
    ELSE IF F32Exp(b) = 158 THEN {(F32Man(b) % 256) * 256}
    ELSE IF F32IsBig(b) THEN {0, 65535}
    ELSE {F32Trunc(b) % 65536}

\* float t clamped by  if (t > 300) t = 300;  and then stored in a uint16_t
ClampThrust(b) == IF F32GreaterThanLimit(b) THEN {THRUST_LIMIT} ELSE F32ToU16(b)

(***************************************************************************)
(* Control law: IKARUS_ControlManager::update.  A float is a record: a     *)
(* finite value (an integer here, rounded to the 24-bit significand of a   *)
(* float after every operation), an infinity with its sign, or a NaN.      *)
(***************************************************************************)
FNum(n) == [k |-> "fin", v |-> n]

\* the float nearest to the integer n, ties to the even significand; the
\* magnitudes of the model stay below 2^30
F32Round(n) ==
    LET a == IF n < 0 THEN -n ELSE n
    IN  IF a < Pow2(24) THEN n
        ELSE LET e   == CHOOSE x \in 24..29 : Pow2(x) <= a /\ a < Pow2(x + 1)
                 ulp == Pow2(e - 23)
                 q   == a \div ulp
                 r   == a % ulp
                 up  == 2 * r > ulp \/ (2 * r = ulp /\ q % 2 = 1)
                 m   == (IF up THEN q + 1 ELSE q) * ulp
             IN  IF n < 0 THEN -m ELSE m
FNaN == [k |-> "nan", v |-> 0]
FInf(sgn) == [k |-> "inf", v |-> sgn]

Sgn(n) == IF n > 0 THEN 1 ELSE IF n < 0 THEN -1 ELSE 0

\* the float held by four payload bytes whose value is integral, infinite or NaN
F32Value(b) ==
    IF F32IsNaN(b) THEN FNaN
    ELSE IF F32Exp(b) = 255 THEN FInf(IF F32Sign(b) = 1 THEN -1 ELSE 1)
    ELSE FNum(IF F32Sign(b) = 1 THEN -F32Trunc(b) ELSE F32Trunc(b))

FNeg(a) == IF a.k = "nan" THEN a ELSE [a EXCEPT !.v = -a.v]

FAdd(a, b) ==
    IF a.k = "nan" \/ b.k = "nan" THEN FNaN
    ELSE IF a.k = "inf" THEN (IF b.k = "inf" /\ b.v # a.v THEN FNaN ELSE a)
    ELSE IF b.k = "inf" THEN b
    ELSE FNum(F32Round(a.v + b.v))

FSubAsSum(a, b) == FAdd(a, b)

FSub(a, b) == FAdd(a, FNeg(b))

FMul(a, b) ==
    IF a.k = "nan" \/ b.k = "nan" THEN FNaN
    ELSE IF a.k = "inf" \/ b.k = "inf"
         THEN IF a.v = 0 \/ b.v = 0 THEN FNaN ELSE FInf(Sgn(a.v) * Sgn(b.v))
    ELSE FNum(F32Round(a.v * b.v))

\* a < b ; every comparison with a NaN is false
FLess(a, b) ==
    /\ a.k # "nan"
    /\ b.k # "nan"
    /\ IF a.k = "inf" THEN a.v = -1 /\ ~(b.k = "inf" /\ b.v = -1)
       ELSE IF b.k = "inf" THEN b.v = 1
       ELSE a.v < b.v

\* (uint16_t) of a float: defined for a finite value in 0..65535, otherwise one
\* of the results of F32ToU16
FToU16(a) ==
    IF a.k = "nan" THEN {0}
    ELSE IF a.k = "inf" THEN (IF a.v = 1 THEN {0, 65535} ELSE {0})
    ELSE IF a.v < 0 THEN {0, Wrap16Neg(-a.v)}
    ELSE {a.v % 65536}

ClipNone(P, v) == v

\* the lambda clip of update(): neither test is true of a NaN, which is returned
Clip(P, v) ==
    IF FLess(v, FNum(P.thrust_min)) THEN FNum(P.thrust_min)
    ELSE IF FLess(FNum(P.thrust_max), v) THEN FNum(P.thrust_max)
    ELSE v

\* P.yaw_integrator after  += Ki_yaw * e_yaw  and the two anti-windup tests
YawIntegrator(P, e_yaw) ==
    LET sum == FAdd(P.yaw_integrator, FMul(P.Ki_yaw, e_yaw))
        hi  == IF FLess(P.yaw_i_limit, sum) THEN P.yaw_i_limit ELSE sum
    IN  IF FLess(hi, FNeg(P.yaw_i_limit)) THEN FNeg(P.yaw_i_limit) ELSE hi

\* the four clipped mixer results T1..T4 of update(), before the conversion
MixerOutputs(P, in, state) ==
    LET e_roll  == FSub(F32Value(in.roll), state.roll)
        e_pitch == FSub(F32Value(in.pitch), state.pitch)
        e_yaw   == FSub(F32Value(in.yaw), state.yaw)
        u_roll  == FSub(FMul(P.Kp_roll, e_roll), FMul(P.Kd_roll, state.roll_dot))
        u_pitch == FSub(FMul(P.Kp_pitch, e_pitch), FMul(P.Kd_pitch, state.pitch_dot))
        d_yaw   == FMul(FNeg(P.Kd_yaw), state.yaw_dot)
        u_yaw   == FAdd(FAdd(FMul(P.Kp_yaw, e_yaw), YawIntegrator(P, e_yaw)), d_yaw)
        R       == FMul(P.mix_roll, u_roll)
        T       == FMul(P.mix_pitch, u_pitch)
        Y       == FMul(P.mix_yaw, u_yaw)
        T_base  == FAdd(FNum(P.thrust_min),
                        FMul(P.base_thrust, FNum(P.thrust_max - P.thrust_min)))
    IN  << Clip(P, FSub(FAdd(FAdd(T_base, R), T), Y)),
           Clip(P, FAdd(FAdd(FSub(T_base, R), T), Y)),
           Clip(P, FSub(FSub(FSub(T_base, R), T), Y)),
           Clip(P, FAdd(FSub(FAdd(T_base, R), T), Y)) >>

\* params after update(): only the integrator changes
ParamsAfter(P, in, state) ==
    [P EXCEPT !.yaw_integrator = YawIntegrator(P, FSub(F32Value(in.yaw), state.yaw))]

\* the values update() can leave in _output
ControlOutputs(P, in, state) ==
    LET T == MixerOutputs(P, in, state)
    IN  { o \in [Motors -> UNION { FToU16(T[m]) : m \in Motors }] :
              \A m \in Motors : o[m] \in FToU16(T[m]) }

\* params of the global ikarus_firmware object, which no code assigns
ZeroParams ==
    [Kp_roll |-> FNum(0), Kd_roll |-> FNum(0), Kp_pitch |-> FNum(0),
     Kd_pitch |-> FNum(0), Kp_yaw |-> FNum(0), Ki_yaw |-> FNum(0),
     Kd_yaw |-> FNum(0), yaw_integrator |-> FNum(0), yaw_i_limit |-> FNum(0),
     mix_roll |-> FNum(0), mix_pitch |-> FNum(0), mix_yaw |-> FNum(0),
     thrust_min |-> 0, thrust_max |-> 0, base_thrust |-> FNum(0)]

\* attitude estimates returned by getStateEstimation()
Estimate(r, p, y, rd) ==
    [roll |-> FNum(r), pitch |-> FNum(p), yaw |-> FNum(y),
     roll_dot |-> FNum(rd), pitch_dot |-> FNum(0), yaw_dot |-> FNum(0)]
Estimates == { Estimate(0, 0, 0, 0), Estimate(1, 0, 0, 0), Estimate(0, 0, -1, 1) }

(***************************************************************************)
(* Wire frames: sequences of FRAME_SIZE bytes laid out as ikarus_message_t *)
(***************************************************************************)
RECURSIVE SumBytes(_, _)
SumBytes(data, len) ==
    IF len = 0 THEN 0 ELSE (SumBytes(data, len - 1) + data[len]) % 65536

\* ikarus_calc_crc(data, len): uint16_t sum of the first len bytes, low byte
ikarus_calc_crc(data, len) == SumBytes(data, len) % 256

MsgStart(data) == data[1]
MsgType(data) == data[2]
MsgPayloadLength(data) == data[3]
MsgPayload(data, k) == data[3 + k]
MsgCrc(data) == data[FRAME_SIZE]

\* the float at payload offset 4*(n-1)
PayloadFloat(data, n) == << MsgPayload(data, 4 * n - 3), MsgPayload(data, 4 * n - 2),
                            MsgPayload(data, 4 * n - 1), MsgPayload(data, 4 * n) >>
\* the little-endian uint16_t at payload offset 0
PayloadU16(data) == MsgPayload(data, 1) + 256 * MsgPayload(data, 2)


(***************************************************************************)
(* Frames the host can send.  HostFrame lays a frame out as the host does: *)
(* header, payload padded with zeros to 100 bytes, and the checksum of     *)
(* header and declared payload (plus crcError, to corrupt it) in the last  *)
(* byte.                                                                   *)
(***************************************************************************)
ZeroPad(n) == [k \in 1..n |-> 0]

RECURSIVE HostSum(_, _)
HostSum(bytes, n) == IF n = 0 THEN 0 ELSE HostSum(bytes, n - 1) + bytes[n]

HostFrame(start, type, len, pay, crcError) ==
    LET body == << start, type, len >> \o pay \o ZeroPad(IKARUS_MSG_MAX_PAYLOAD - Len(pay))
        n == IF len > IKARUS_MSG_MAX_PAYLOAD THEN 3 ELSE 3 + len
    IN  body \o << (HostSum(body, n) + crcError) % 256 >>

GoodFrame(type, pay) == HostFrame(IKARUS_MSG_START_BYTE, type, Len(pay), pay, 0)

\* IEEE-754 single precision, little-endian
F_0 == << 0, 0, 0, 0 >>
F_1 == << 0, 0, 128, 63 >>
F_2 == << 0, 0, 0, 64 >>
F_300 == << 0, 0, 150, 67 >>
F_300_5 == << 0, 64, 150, 67 >>
F_301 == << 0, 128, 150, 67 >>
F_Neg1 == << 0, 0, 128, 191 >>

ArmFrame == GoodFrame(IKARUS_MSG_ARMING, << 1 >>)
DisarmFrame == GoodFrame(IKARUS_MSG_ARMING, << 0 >>)
ThrustFrame(f1, f2, f3, f4) == GoodFrame(IKARUS_MSG_THRUST, f1 \o f2 \o f3 \o f4)
MotorFrame(n, f) == GoodFrame(IKARUS_MSG_MOTOR1 + (n - 1), f)

(***************************************************************************)
(* State                                                                   *)
(***************************************************************************)
VARIABLES
    firmware_state,   \* IKARUS_Firmware::firmware_state
    samples_counter,  \* IKARUS_Firmware::samples_counter
    armed,            \* Controller::armed
    inputs,           \* Controller::_inputs, each field the four bytes of a float
    special_command,  \* Controller::special_command
    thrust,           \* IKARUS_MotorController::thrust1..thrust4
    signal,           \* Motor::_signal of motors[0..3]
    initialized,      \* IKARUS_MotorController::initialized
    motorSemaphore,   \* the task holding motorSemaphore, or "free"
    mag_calibrating,  \* GY271::calibrate is running
    mag_calibrated,   \* GY271::cal has been written by calibrate
    pc,               \* position of each task
    ret,              \* what the control task does when update() returns
    i,                \* loop counter of the arming-confirmation window
    st_args,          \* arguments of each task's setThrust call, after the clamp
    msgBuf,           \* MessageTask's msgBuf, the frame given to the dispatcher
    reply,            \* argument of the dispatcher's pending send()
    txQueue,          \* uartTxQueueHandle: the messages waiting for UartTxTask
    in_message,       \* MessageTask: in_message
    index,            \* MessageTask: index
    expected_length,  \* MessageTask: expected_length
    rxStream,         \* bytes received and not yet read by MessageTask
    params,           \* IKARUS_ControlManager::params
    output,           \* IKARUS_ControlManager::_output
    motors,           \* IKARUS_MotorController::motors[0..3]: "none", "null" or "ok"
    uart,             \* huart7 and UartTxTask: dma is the frame in flight, flag the
                      \* thread flag 0x01, txBuffer the static staging buffer of
                      \* UART_Send; wire (frames transmitted), put (messages
                      \* accepted by the queue) and calls (calls of UART_Send) are
                      \* histories; rx is the receive side: count the bytes the
                      \* circular DMA has written into rxBuffer so far, left the
                      \* bytes the host will still send, idle the
                      \* pending IDLE interrupt, isr whether UART_IdleCallback is
                      \* in its loop, i, dma_pos and bytes_to_copy its locals,
                      \* old_pos, ring the RingBuffer
                      \* uartRxBuffer (buffer holds the cells written so far),
                      \* flag the thread flag 0x01 of MessageTask, byte the local
                      \* of MessageTask; accepted (bytes whose put succeeded),
                      \* got (bytes returned by get) and seen (count at the last
                      \* idle callback) are histories
    \* --- observations, written but never read by the program ---
    nmsg,             \* frames handed to the dispatcher so far
    periods,          \* RUNNING periods in which the control law has run so far
    delivered,        \* the frames MessageTask handed to the dispatcher
    sent,             \* the frames the host has put on the link as bytes
    lastFrame,        \* the last motor frame sent by update()
    held,             \* values ThrustCommand held during the running update()
    trueReads,        \* confirmation checks of the current window that read true
    dropped,          \* ArmState was false at some moment of the current window
    disarm,           \* progress of a disarm that happened while RUNNING
    nreply,           \* replies the dispatcher has enqueued for the current frame
    hal_fail,         \* the channel whose PWM/DMA start failed, or 0
    est               \* the estimate read by the last update of the control law

progVars == << firmware_state, samples_counter, armed, inputs, special_command,
               thrust, signal, initialized, motorSemaphore, mag_calibrating,
               mag_calibrated, pc, ret, i, st_args, msgBuf, reply, txQueue,
               in_message, index, expected_length, rxStream, params, output,
               motors, uart >>
obsVars == << nmsg, periods, delivered, sent, lastFrame, held, trueReads, dropped, disarm,
              nreply, hal_fail, est >>
vars == << progVars, obsVars >>
progVarsButPc == << firmware_state, samples_counter, armed, inputs, special_command,
                    thrust, signal, initialized, motorSemaphore, mag_calibrating,
                    mag_calibrated, ret, i, st_args, msgBuf, reply, txQueue,
                    in_message, index, expected_length, rxStream, params, output,
                    motors, uart >>

Zeros == [m \in Motors |-> 0]
ZeroFrame == ZeroPad(FRAME_SIZE)

InitCommonWith(rx) ==
    /\ firmware_state = "UNARMED"
    /\ samples_counter = 0
    /\ armed = FALSE
    /\ inputs = [roll |-> F_0, pitch |-> F_0, yaw |-> F_0]
    /\ special_command = 0
    /\ thrust = Zeros
    /\ signal = Zeros
    /\ initialized = TRUE
    /\ motorSemaphore = "free"
    /\ mag_calibrating = FALSE
    /\ mag_calibrated = FALSE
    /\ pc = [sup |-> "top", msg |-> "wait", boot |-> "done", tx |-> "get"]
    /\ ret = "next"
    /\ i = 0
    /\ st_args = [sup |-> Zeros, msg |-> Zeros]
    /\ msgBuf = ZeroFrame
    /\ reply = ""
    /\ txQueue = << >>
    /\ in_message = FALSE
    /\ index = 0
    /\ expected_length = 0
    /\ nmsg = 0
    /\ periods = 0
    /\ delivered = << >>
    /\ lastFrame = [state |-> "none", signal |-> Zeros, values |-> Zeros,
                    held |-> {Zeros}, law |-> Zeros,
                    buffer |-> [m \in Motors |-> << >>]]
    /\ held = {}
    /\ trueReads = 0
    /\ dropped = FALSE
    /\ disarm = "none"
    /\ params = ZeroParams
    /\ output = Zeros
    /\ motors = "ok"
    /\ nreply = 0
    /\ hal_fail = 0
    /\ est = Estimate(0, 0, 0, 0)
    /\ uart = [dma |-> << >>, flag |-> FALSE, wire |-> << >>, put |-> << >>,
               calls |-> 0, txBuffer |-> "",
               rx |-> rx]

\* no byte has been received: old_pos = 0, uartRxBuffer (a
\* RingBuffer<uint8_t, 512>) is empty
InitCommon ==
    InitCommonWith([count |-> 0, left |-> MaxRx, idle |-> FALSE, isr |-> FALSE,
                    i |-> 0, dma_pos |-> 0, bytes_to_copy |-> 0, old_pos |-> 0,
                    flag |-> FALSE,
                    ring |-> [size |-> RX_RING_SIZE, buffer |-> << >>, head |-> 0,
                              tail |-> 0, overflow |-> FALSE],
                    byte |-> 0, accepted |-> << >>, got |-> << >>, seen |-> 0])

\* The state after IKARUS_Firmware::start() has returned: the motor
\* controller is initialised with zero thrust, the control task exists and
\* no byte has arrived on the link.
Init == InitCommon /\ rxStream = << >> /\ sent = << >>

(***************************************************************************)
(* Transmit path                                                           *)
(***************************************************************************)
\* UART_Send / UART_SendBinary: the message is copied to txBuffer and put in
\* the queue with timeout 0, so it is dropped when the queue is full.
\* the put that replaces the oldest message when the queue is full
UART_SendOverwrite(q, m) ==
    IF Len(q) < TX_QUEUE_LEN THEN Append(q, m) ELSE Append(Tail(q), m)
UART_Send(q, m) == IF Len(q) < TX_QUEUE_LEN THEN Append(q, m) ELSE q

\* the record of the link after UART_Send(m) on queue q: one more call, and
\* one more accepted message unless the put failed
UartPut(u, q, m) ==
    [u EXCEPT !.calls = @ + 1,
              !.put = IF UART_Send(q, m) = q THEN @ ELSE Append(@, m)]

\* osThreadFlagsWait(0x01, ...) returning at once, whatever the flag is
TxReadyAlways(u) == TRUE
\* osThreadFlagsWait(0x01, osFlagsWaitAny, osWaitForever) returns
TxReady(u) == u.flag

\* UartTxTask: osMessageQueueGet and HAL_UART_Transmit_DMA, which starts the
\* transfer unless one is in flight (HAL_BUSY, ignored by the task)
TxGet ==
    /\ pc.tx = "get"
    /\ txQueue # << >>
    /\ txQueue' = Tail(txQueue)
    /\ uart' = [uart EXCEPT !.dma = IF @ = << >> THEN << Head(txQueue) >> ELSE @]
    /\ pc' = [pc EXCEPT !.tx = "wait"]
    /\ UNCHANGED << firmware_state, samples_counter, armed, inputs, special_command,
                    thrust, signal, initialized, motorSemaphore, mag_calibrating,
                    mag_calibrated, ret, i, st_args, msgBuf, reply, in_message,
                    index, expected_length, rxStream, params, output, motors >>
    /\ UNCHANGED obsVars

\* the DMA transfer ends: HAL_UART_TxCpltCallback sets thread flag 0x01
TxComplete ==
    /\ uart.dma # << >>
    /\ uart' = [uart EXCEPT !.dma = << >>, !.wire = Append(@, uart.dma[1]),
                            !.flag = TRUE]
    /\ UNCHANGED << firmware_state, samples_counter, armed, inputs, special_command,
                    thrust, signal, initialized, motorSemaphore, mag_calibrating,
                    mag_calibrated, pc, ret, i, st_args, msgBuf, reply, txQueue,
                    in_message, index, expected_length, rxStream, params, output,
                    motors >>
    /\ UNCHANGED obsVars

\* UartTxTask: osThreadFlagsWait returns and clears the flag
TxWake ==
    /\ pc.tx = "wait"
    /\ TxReady(uart)
    /\ uart' = [uart EXCEPT !.flag = FALSE]
    /\ pc' = [pc EXCEPT !.tx = "get"]
    /\ UNCHANGED << firmware_state, samples_counter, armed, inputs, special_command,
                    thrust, signal, initialized, motorSemaphore, mag_calibrating,
                    mag_calibrated, ret, i, st_args, msgBuf, reply, txQueue,
                    in_message, index, expected_length, rxStream, params, output,
                    motors >>
    /\ UNCHANGED obsVars

\* the number of UART_Send calls in a run
MaxSends == 11

\* UART_Send(msg) called by a task with one of two texts
UartSend ==
    /\ uart.calls < MaxSends
    /\ \E m \in {"OK: armed", "OK: disarmed"} :
        /\ txQueue' = UART_Send(txQueue, m)
        /\ uart' = UartPut(uart, txQueue, m)
    /\ UNCHANGED << firmware_state, samples_counter, armed, inputs, special_command,
                    thrust, signal, initialized, motorSemaphore, mag_calibrating,
                    mag_calibrated, pc, ret, i, st_args, msgBuf, reply, in_message,
                    index, expected_length, rxStream, params, output, motors >>
    /\ UNCHANGED obsVars

\* producers and the transmit task
NextTx ==
    \/ UartSend
    \/ TxGet
    \/ TxComplete
    \/ TxWake

SpecTx == Init /\ [][NextTx]_vars


\* UART_Send and UART_SendBinary in two steps, as two tasks of equal priority
\* run them: the message is copied into the one static txBuffer, then
\* osMessageQueuePut copies txBuffer into the queue.  The control task sends
\* the telemetry sample, the dispatcher a reply.

\* the number of UART_Send / UART_SendBinary calls in a run of the two producers
MaxStaged == 4

\* the content task self passes to the call it is in
Passed(self) == IF self = "sup" THEN "SAMPLE" ELSE reply

\* strncpy(txBuffer, msg, ...) / memcpy(txBuffer, data, len)
SendStage(self) ==
    /\ pc[self] \in {"top", "wait"}
    /\ uart.calls < MaxStaged
    /\ \E m \in (IF self = "sup" THEN {"SAMPLE"} ELSE {"OK: armed", "OK: disarmed"}) :
        /\ reply' = IF self = "msg" THEN m ELSE reply
        /\ uart' = [uart EXCEPT !.txBuffer = m, !.calls = @ + 1]
    /\ pc' = [pc EXCEPT ![self] = "put"]
    /\ UNCHANGED << firmware_state, samples_counter, armed, inputs, special_command,
                    thrust, signal, initialized, motorSemaphore, mag_calibrating,
                    mag_calibrated, ret, i, st_args, msgBuf, txQueue, in_message,
                    index, expected_length, rxStream, params, output, motors >>
    /\ UNCHANGED obsVars

\* osMessageQueuePut(uartTxQueueHandle, txBuffer, 0, 0) and the return
SendPut(self) ==
    /\ pc[self] = "put"
    /\ txQueue' = UART_Send(txQueue, uart.txBuffer)
    /\ uart' = [uart EXCEPT !.put = IF Len(txQueue) < TX_QUEUE_LEN
                                    THEN Append(@, Passed(self)) ELSE @]
    /\ pc' = [pc EXCEPT ![self] = IF self = "sup" THEN "top" ELSE "wait"]
    /\ UNCHANGED << firmware_state, samples_counter, armed, inputs, special_command,
                    thrust, signal, initialized, motorSemaphore, mag_calibrating,
                    mag_calibrated, ret, i, st_args, msgBuf, reply, in_message,
                    index, expected_length, rxStream, params, output, motors >>
    /\ UNCHANGED obsVars

\* the two producers and the transmit task
NextStage ==
    \/ SendStage("sup")
    \/ SendStage("msg")
    \/ SendPut("sup")
    \/ SendPut("msg")
    \/ TxGet
    \/ TxComplete
    \/ TxWake

SpecStage == Init /\ [][NextStage]_vars


(***************************************************************************)
(* Motor output layer (IKARUS_MotorController), as called by task self.    *)
(* osSemaphoreAcquire is folded into the first access it protects and      *)
(* osSemaphoreRelease into the last one.                                   *)
(***************************************************************************)
\* value &= 0x7FF in prepare_dshot_buffer: the throttle that goes on the wire
DShotValue(v) == v % 2048

\* constexpr uint32_t PERIOD, DSHOT_BIT_1_DUTY, DSHOT_BIT_0_DUTY
PERIOD == 275
DSHOT_BIT_1_DUTY == 80
DSHOT_BIT_0_DUTY == 40

\* the frame with a checksum of 0
DShotFrameNoCsum(value) == DShotValue(value) * 32
\* the 16-bit frame of prepare_dshot_buffer: value and telemetry bit 0, then
\* the xor of the three nibbles of these 12 bits
DShotFrame(value) ==
    LET frame == DShotValue(value) * 2
        Xor(a, b) == LET bit(k) == ((a \div Pow2(k)) + (b \div Pow2(k))) % 2
                     IN  bit(0) + 2 * bit(1) + 4 * bit(2) + 8 * bit(3)
        csum == Xor(Xor(Xor(0, frame % 16), (frame \div 16) % 16),
                    (frame \div 256) % 16) % 16
    IN  ((frame * 16) % 65536) + csum

\* the slots filled least significant bit first
prepare_dshot_buffer_lsb(value) ==
    [k \in 1..17 |->
        IF k = 17 THEN 0
        ELSE IF (DShotFrame(value) \div Pow2(k - 1)) % 2 = 1
             THEN (PERIOD * DSHOT_BIT_1_DUTY) \div 100
             ELSE (PERIOD * DSHOT_BIT_0_DUTY) \div 100]
\* dshot_pwm_buffer[0..16] after prepare_dshot_buffer(value, dshot_pwm_buffer);
\* element k is dshot_pwm_buffer[k - 1]
prepare_dshot_buffer(value) ==
    [k \in 1..17 |->
        IF k = 17 THEN 0
        ELSE IF (DShotFrame(value) \div Pow2(15 - (k - 1))) % 2 = 1
             THEN (PERIOD * DSHOT_BIT_1_DUTY) \div 100
             ELSE (PERIOD * DSHOT_BIT_0_DUTY) \div 100]

\* a write of ThrustCommand; the observation held collects every tuple that
\* ThrustCommand holds while update() is between its first and last read
WriteThrust(new) ==
    /\ thrust' = new
    /\ held' = IF pc.sup \in {"upd2", "upd3", "upd4"} THEN held \cup {new} ELSE held

\* for (uint8_t i = 0; ...): the first value of the loop counter
LoopInit == 0
\* uint8_t status = 1;  and  status = 0; break;
InitStatus == 1
BreakStatus == 0

\* the loop test with an off-by-one error: one check too few
LoopTestShort(k) == k < ARM_CONFIRMATIONS - 1
\* for (...; i < 160; ...): the loop test of the confirmation window
LoopTest(k) == k < ARM_CONFIRMATIONS

\* the end of the window without the test of status
WindowResultUntested(status) == "RUNNING"
\* if (status) firmware_state = RUNNING;  the state after the window
WindowResult(status) == IF status # 0 THEN "RUNNING" ELSE firmware_state

\* What the control task does after update() has returned: in the window,
\* osDelay, i++ and the loop test, with the transition to RUNNING when the
\* loop is complete; in the RUNNING case, the sample counter.  The loop
\* counter i goes out of scope with the loop and is kept at 0 outside it.
UpdateReturn ==
    IF ret = "next"
    THEN IF LoopTest(i + 1)
         THEN /\ i' = i + 1
              /\ pc' = [pc EXCEPT !.sup = "loop"]
              /\ UNCHANGED firmware_state
         ELSE /\ i' = 0
              /\ pc' = [pc EXCEPT !.sup = "delay"]
              /\ firmware_state' = WindowResult(InitStatus)
    ELSE /\ pc' = [pc EXCEPT !.sup = "count"]
         /\ UNCHANGED << i, firmware_state >>

\* update(): acquire, motors[0]->setSignal(thrust1)
UpdateFirst ==
    /\ pc.sup = "upd1"
    /\ IF ~initialized
       THEN /\ UpdateReturn
            /\ UNCHANGED << signal, motorSemaphore, held >>
       ELSE /\ motorSemaphore = "free"
            /\ motorSemaphore' = "sup"
            /\ signal' = [signal EXCEPT ![1] = thrust[1]]
            /\ held' = {thrust}
            /\ pc' = [pc EXCEPT !.sup = "upd2"]
            /\ UNCHANGED << i, firmware_state >>
    /\ UNCHANGED << samples_counter, armed, inputs, special_command, thrust,
                    initialized, mag_calibrating, mag_calibrated, ret, st_args,
                    msgBuf, reply, txQueue, in_message, index, expected_length,
                    rxStream, nmsg, periods, delivered, sent, lastFrame, trueReads, dropped, disarm >>
    /\ UNCHANGED << params, output, motors, uart, nreply, hal_fail, est >>

\* update(): motors[1]->setSignal(thrust2), motors[2]->setSignal(thrust3)
UpdateNext ==
    /\ \E k \in {2, 3} :
        /\ pc.sup = << "upd1", "upd2", "upd3", "upd4" >>[k]
        /\ signal' = [signal EXCEPT ![k] = thrust[k]]
        /\ pc' = [pc EXCEPT !.sup = << "upd1", "upd2", "upd3", "upd4" >>[k + 1]]
    /\ UNCHANGED << firmware_state, samples_counter, armed, inputs, special_command,
                    thrust, initialized, motorSemaphore, mag_calibrating,
                    mag_calibrated, ret, i, st_args, msgBuf, reply, txQueue,
                    in_message, index, expected_length, rxStream, nmsg, periods, delivered, sent,
                    lastFrame, held, trueReads, dropped, disarm >>
    /\ UNCHANGED << params, output, motors, uart, nreply, hal_fail, est >>

\* update(): motors[3]->setSignal(thrust4), the four updatePWM() calls that
\* send the motor frame, release, and the caller's continuation
UpdateLast ==
    /\ pc.sup = "upd4"
    /\ signal' = [signal EXCEPT ![4] = thrust[4]]
    /\ lastFrame' = [state |-> firmware_state,
                     signal |-> signal',
                     values |-> [m \in Motors |-> DShotValue(signal'[m])],
                     held |-> held,
                     law |-> output,
                     buffer |-> [m \in Motors |-> prepare_dshot_buffer(signal'[m])]]
    /\ held' = {}
    /\ motorSemaphore' = "free"
    /\ UpdateReturn
    /\ UNCHANGED << samples_counter, armed, inputs, special_command, thrust,
                    initialized, mag_calibrating, mag_calibrated, ret, st_args,
                    msgBuf, reply, txQueue, in_message, index, expected_length,
                    rxStream, nmsg, periods, delivered, sent, trueReads, dropped, disarm >>
    /\ UNCHANGED << params, output, motors, uart, nreply, hal_fail, est >>

\* What task self does after its setThrust() has returned: the control task
\* sleeps; the dispatcher clears the arm flag (DISARM) or acknowledges (THRUST).
SetThrustReturn(self) ==
    IF self = "sup"
    THEN pc' = [pc EXCEPT !.sup = "delay"] /\ UNCHANGED reply
    ELSE IF MsgType(msgBuf) = IKARUS_MSG_ARMING
         THEN pc' = [pc EXCEPT !.msg = "disarm"] /\ UNCHANGED reply
         ELSE pc' = [pc EXCEPT !.msg = "snd"] /\ reply' = "OK: thrust"

\* setThrust(): acquire, thrust1 = t1
SetThrustFirst(self) ==
    /\ pc[self] = "st1"
    /\ motorSemaphore = "free"
    /\ motorSemaphore' = self
    /\ WriteThrust([thrust EXCEPT ![1] = st_args[self][1]])
    /\ pc' = [pc EXCEPT ![self] = "st2"]
    /\ UNCHANGED << firmware_state, samples_counter, armed, inputs, special_command,
                    signal, initialized, mag_calibrating, mag_calibrated, ret, i,
                    st_args, msgBuf, reply, txQueue, in_message, index,
                    expected_length, rxStream, nmsg, periods, delivered, sent, lastFrame,
                    trueReads, dropped, disarm >>
    /\ UNCHANGED << params, output, motors, uart, nreply, hal_fail, est >>

\* setThrust(): thrust2 = t2, thrust3 = t3
SetThrustNext(self) ==
    /\ \E k \in {2, 3} :
        /\ pc[self] = << "st1", "st2", "st3", "st4" >>[k]
        /\ WriteThrust([thrust EXCEPT ![k] = st_args[self][k]])
        /\ pc' = [pc EXCEPT ![self] = << "st1", "st2", "st3", "st4" >>[k + 1]]
    /\ UNCHANGED << firmware_state, samples_counter, armed, inputs, special_command,
                    signal, initialized, motorSemaphore, mag_calibrating,
                    mag_calibrated, ret, i, st_args, msgBuf, reply, txQueue,
                    in_message, index, expected_length, rxStream, nmsg, periods, delivered, sent,
                    lastFrame, trueReads, dropped, disarm >>
    /\ UNCHANGED << params, output, motors, uart, nreply, hal_fail, est >>

\* setThrust(): thrust4 = t4, release, and the caller's continuation
SetThrustLast(self) ==
    /\ pc[self] = "st4"
    /\ WriteThrust([thrust EXCEPT ![4] = st_args[self][4]])
    /\ motorSemaphore' = "free"
    /\ SetThrustReturn(self)
    /\ UNCHANGED << firmware_state, samples_counter, armed, inputs, special_command,
                    signal, initialized, mag_calibrating, mag_calibrated, ret, i,
                    st_args, msgBuf, txQueue, in_message, index, expected_length,
                    rxStream, nmsg, periods, delivered, sent, lastFrame, trueReads, dropped, disarm >>
    /\ UNCHANGED << params, output, motors, uart, nreply, hal_fail, est >>

(***************************************************************************)
(* Firmware supervisor: IKARUS_Firmware::task, the control task "sup"      *)
(***************************************************************************)
\* switch (firmware_state) and the first test of the case
SupTopBounded(maxp) ==
    /\ pc.sup = "top"
    /\ disarm' = IF disarm = "pending" THEN "started" ELSE disarm
    /\ IF firmware_state = "UNARMED"
       THEN /\ IF armed
               THEN /\ i' = LoopInit
                    /\ pc' = [pc EXCEPT !.sup = "loop"]
                    /\ trueReads' = 0
                    /\ dropped' = FALSE
               ELSE /\ pc' = [pc EXCEPT !.sup = "delay"]
                    /\ UNCHANGED << i, trueReads, dropped >>
            /\ UNCHANGED << firmware_state, st_args, ret, periods, params, output, est >>
       ELSE IF firmware_state = "RUNNING"
       THEN /\ IF ~armed
               THEN /\ firmware_state' = "UNARMED"
                    /\ st_args' = [st_args EXCEPT !.sup = Zeros]
                    /\ pc' = [pc EXCEPT !.sup = "st1"]
                    /\ UNCHANGED << ret, periods, params, output, est >>
               ELSE \* controlManager.update() writes only the control
                    \* manager's own output, then motorController.update()
                    /\ periods < maxp
                    /\ \E state \in Estimates :
                        /\ params' = ParamsAfter(params, inputs, state)
                        /\ output' \in ControlOutputs(params, inputs, state)
                        /\ est' = state
                    /\ periods' = periods + 1
                    /\ pc' = [pc EXCEPT !.sup = "upd1"]
                    /\ ret' = "count"
                    /\ UNCHANGED << firmware_state, st_args >>
            /\ UNCHANGED << i, trueReads, dropped >>
       ELSE \* IKARUS_FIRMWARE_STATE_ERROR: while (1) osDelay(1000)
            /\ pc' = [pc EXCEPT !.sup = "halt"]
            /\ UNCHANGED << firmware_state, st_args, ret, i, trueReads, dropped,
                            periods, params, output, est >>
    /\ UNCHANGED << samples_counter, armed, inputs, special_command, thrust, signal,
                    initialized, motorSemaphore, mag_calibrating, mag_calibrated,
                    msgBuf, reply, txQueue, in_message, index, expected_length,
                    rxStream, nmsg, delivered, sent, lastFrame, held >>
    /\ UNCHANGED << motors, uart, nreply, hal_fail >>

\* the control task in a run of at most MaxPeriods periods of the control law
SupTop == SupTopBounded(MaxPeriods)

\* one confirmation check of the window: if (!getArmedStatus()) { status = 0; break; }
SupCheck ==
    /\ pc.sup = "loop"
    /\ IF armed
       THEN /\ pc' = [pc EXCEPT !.sup = "upd1"]
            /\ ret' = "next"
            /\ trueReads' = trueReads + 1
            /\ UNCHANGED << i, firmware_state >>
       ELSE \* break, then  if (status) firmware_state = RUNNING
            /\ pc' = [pc EXCEPT !.sup = "delay"]
            /\ i' = 0
            /\ firmware_state' = WindowResult(BreakStatus)
            /\ UNCHANGED << ret, trueReads >>
    /\ UNCHANGED << samples_counter, armed, inputs, special_command,
                    thrust, signal, initialized, motorSemaphore, mag_calibrating,
                    mag_calibrated, st_args, msgBuf, reply, txQueue, in_message,
                    index, expected_length, rxStream, nmsg, periods, delivered, sent, lastFrame,
                    held, dropped, disarm >>
    /\ UNCHANGED << params, output, motors, uart, nreply, hal_fail, est >>

\* the test that lets one more period pass
SampleDueLate(n) == n > SAMPLE_PERIOD
\* if (this->samples_counter >= 10), after samples_counter++
SampleDue(n) == n >= SAMPLE_PERIOD

\* samples_counter++ and, every 10th time, comm.sendSample()
SupCount ==
    /\ pc.sup = "count"
    /\ IF SampleDue(samples_counter + 1)
       THEN /\ samples_counter' = 0
            /\ txQueue' = UART_Send(txQueue, "SAMPLE")
            /\ uart' = UartPut(uart, txQueue, "SAMPLE")
       ELSE /\ samples_counter' = samples_counter + 1
            /\ UNCHANGED << txQueue, uart >>
    /\ pc' = [pc EXCEPT !.sup = "delay"]
    /\ UNCHANGED << firmware_state, armed, inputs, special_command, thrust, signal,
                    initialized, motorSemaphore, mag_calibrating, mag_calibrated,
                    ret, i, st_args, msgBuf, reply, in_message, index,
                    expected_length, rxStream, nmsg, periods, delivered, sent, lastFrame, held,
                    trueReads, dropped, disarm >>
    /\ UNCHANGED << params, output, motors, nreply, hal_fail, est >>

\* osDelay(25) at the end of a period
SupDelay ==
    /\ pc.sup = "delay"
    /\ pc' = [pc EXCEPT !.sup = "top"]
    /\ disarm' = IF disarm = "started" THEN "none" ELSE disarm
    /\ trueReads' = 0
    /\ dropped' = FALSE
    /\ UNCHANGED << progVarsButPc, nmsg, periods, delivered, sent, lastFrame, held >>
    /\ UNCHANGED << nreply, hal_fail, est >>


(***************************************************************************)
(* Command dispatcher: IKARUS_CommunicationManager::processBinaryMessage,  *)
(* run by MessageTask, the task "msg"                                      *)
(***************************************************************************)
\* the dispatcher without the checksum test
CrcMatchesUnchecked(data) == TRUE
\* calc_crc != msg->crc, with the crc over the header and the declared payload
CrcMatches(data) ==
    ikarus_calc_crc(data, 3 + MsgPayloadLength(data)) = MsgCrc(data)

\* the basic checks of processBinaryMessage, in the order of the code
Verdict(data) ==
    IF Len(data) < FRAME_SIZE THEN "ERR: msg too short"
    ELSE IF MsgStart(data) # IKARUS_MSG_START_BYTE THEN "ERR: invalid start"
    ELSE IF MsgPayloadLength(data) > IKARUS_MSG_MAX_PAYLOAD THEN "ERR: invalid length"
    ELSE IF ~CrcMatches(data) THEN "ERR: CRC mismatch"
    ELSE "OK"

\* sizeof(ikarus_motor_thrust_t) and sizeof(float)
SizeofThrust == 16
SizeofFloat == 4

\* every arming value other than 1 disarms
IsDisarmValueElse(v) == TRUE
\* else if (msg->payload[0] == 0)
IsDisarmValue(v) == v = 0

\* The switch of processBinaryMessage up to the first access to shared
\* state: "where" is the dispatcher's next position, "err" the error text
\* when the frame is refused.
Route(data) ==
    LET t == MsgType(data)
        n == MsgPayloadLength(data)
    IN  IF Verdict(data) # "OK" THEN [where |-> "snd", err |-> Verdict(data)]
        ELSE IF t = IKARUS_MSG_ARMING
        THEN IF n # 1 THEN [where |-> "snd", err |-> "ERR: invalid arming payload"]
             ELSE IF MsgPayload(data, 1) = 1 THEN [where |-> "arm", err |-> ""]
             ELSE IF IsDisarmValue(MsgPayload(data, 1)) THEN [where |-> "st1", err |-> ""]
             ELSE [where |-> "snd", err |-> "ERR: invalid arming value"]
        ELSE IF t = IKARUS_MSG_THRUST
        THEN IF n # SizeofThrust THEN [where |-> "snd", err |-> "ERR: invalid thrust payload"]
             ELSE [where |-> "st1", err |-> ""]
        ELSE IF t \in {IKARUS_MSG_PITCH, IKARUS_MSG_ROLL, IKARUS_MSG_YAW}
        THEN IF n # SizeofFloat THEN [where |-> "snd", err |-> "ERR: invalid float payload"]
             ELSE [where |-> "setp", err |-> ""]
        ELSE IF t \in {IKARUS_MSG_MOTOR1, IKARUS_MSG_MOTOR2, IKARUS_MSG_MOTOR3, IKARUS_MSG_MOTOR4}
        THEN IF n # SizeofFloat THEN [where |-> "snd", err |-> "ERR: invalid motor payload"]
             ELSE [where |-> "motor", err |-> ""]
        ELSE IF t = IKARUS_MAG_CALIBRATE THEN [where |-> "cal", err |-> ""]
        ELSE IF t = IKARUS_SPECIAL_COMMAND THEN [where |-> "special", err |-> ""]
        ELSE [where |-> "snd", err |-> "ERR: unknown type"]

\* DISARM: the argument of setThrust(0, 0, 0, 0) for a motor whose
\* ThrustCommand field holds current
DisarmArgStale(current) == current
DisarmArg(current) == 0

\* processBinaryMessage(data, len) is entered
Dispatch(data) ==
    LET r == Route(data)
        arg(k) == IF MsgType(data) = IKARUS_MSG_ARMING THEN {DisarmArg(thrust[k])}
                  ELSE ClampThrust(PayloadFloat(data, k))
    IN  /\ pc' = [pc EXCEPT !.msg = r.where]
        /\ reply' = r.err
        /\ IF r.where = "st1"
           THEN \E a1 \in arg(1), a2 \in arg(2), a3 \in arg(3), a4 \in arg(4) :
                   st_args' = [st_args EXCEPT !.msg = << a1, a2, a3, a4 >>]
           ELSE UNCHANGED st_args

\* MessageTask has collected frame f and calls the dispatcher.  (The bytes
\* of f went through the receive path; see ParseByte for that path.)
MessageArrives(F) ==
    /\ pc.msg = "wait"
    /\ nmsg < MaxMsgs
    /\ \E f \in F :
        /\ msgBuf' = f
        /\ Dispatch(f)
    /\ nmsg' = nmsg + 1
    /\ UNCHANGED << firmware_state, samples_counter, armed, inputs, special_command,
                    thrust, signal, initialized, motorSemaphore, mag_calibrating,
                    mag_calibrated, ret, i, txQueue, in_message, index,
                    expected_length, rxStream, periods, delivered, sent, lastFrame, held,
                    trueReads, dropped, disarm >>
    /\ nreply' = 0
    /\ UNCHANGED << params, output, motors, uart, hal_fail, est >>

\* ARM: controller.setArmedStatus(true)
MsgArm ==
    /\ pc.msg = "arm"
    /\ armed' = TRUE
    /\ reply' = "OK: armed"
    /\ pc' = [pc EXCEPT !.msg = "snd"]
    /\ UNCHANGED << firmware_state, samples_counter, inputs, special_command, thrust,
                    signal, initialized, motorSemaphore, mag_calibrating,
                    mag_calibrated, ret, i, st_args, msgBuf, txQueue, in_message,
                    index, expected_length, rxStream, nmsg, periods, delivered, sent, lastFrame,
                    held, trueReads, dropped, disarm >>
    /\ UNCHANGED << params, output, motors, uart, nreply, hal_fail, est >>

\* the control task is inside the arming-confirmation window
InWindow == pc.sup = "loop" \/ (pc.sup \in {"upd1", "upd2", "upd3", "upd4"} /\ ret = "next")

\* DISARM, after setThrust(0,0,0,0): controller.setArmedStatus(false)
MsgDisarm ==
    /\ pc.msg = "disarm"
    /\ armed' = FALSE
    /\ reply' = "OK: disarmed"
    /\ pc' = [pc EXCEPT !.msg = "snd"]
    /\ dropped' = (dropped \/ InWindow)
    /\ disarm' = IF armed /\ firmware_state = "RUNNING" /\ disarm = "none"
                 THEN "pending" ELSE disarm
    /\ UNCHANGED << firmware_state, samples_counter, inputs, special_command, thrust,
                    signal, initialized, motorSemaphore, mag_calibrating,
                    mag_calibrated, ret, i, st_args, msgBuf, txQueue, in_message,
                    index, expected_length, rxStream, nmsg, periods, delivered, sent, lastFrame,
                    held, trueReads >>
    /\ UNCHANGED << params, output, motors, uart, nreply, hal_fail, est >>

\* PITCH / ROLL / YAW: controller.setPitch(value), setRoll, setYaw
MsgSetpoint ==
    /\ pc.msg = "setp"
    /\ LET value == PayloadFloat(msgBuf, 1)
       IN  IF MsgType(msgBuf) = IKARUS_MSG_PITCH
           THEN inputs' = [inputs EXCEPT !.pitch = value] /\ reply' = "OK: pitch"
           ELSE IF MsgType(msgBuf) = IKARUS_MSG_ROLL
           THEN inputs' = [inputs EXCEPT !.roll = value] /\ reply' = "OK: roll"
           ELSE inputs' = [inputs EXCEPT !.yaw = value] /\ reply' = "OK: yaw"
    /\ pc' = [pc EXCEPT !.msg = "snd"]
    /\ UNCHANGED << firmware_state, samples_counter, armed, special_command, thrust,
                    signal, initialized, motorSemaphore, mag_calibrating,
                    mag_calibrated, ret, i, st_args, msgBuf, txQueue, in_message,
                    index, expected_length, rxStream, nmsg, periods, delivered, sent, lastFrame,
                    held, trueReads, dropped, disarm >>
    /\ UNCHANGED << params, output, motors, uart, nreply, hal_fail, est >>

\* every single-motor command goes to motor 1
MotorIndexFirst(type) == 1
\* switch (msg->msg_type): MOTORn calls setThrustn
MotorIndex(type) == type - IKARUS_MSG_MOTOR1 + 1

\* MOTOR1..4: motorController.setThrustN(value), which converts the float to
\* uint32_t, stores it in the uint16_t thrustN and takes no semaphore
MsgMotor ==
    /\ pc.msg = "motor"
    /\ LET n == MotorIndex(MsgType(msgBuf))
       IN  /\ \E v \in F32ToU16(PayloadFloat(msgBuf, 1)) :
                WriteThrust([thrust EXCEPT ![n] = v])
           /\ reply' = << "OK: motor1", "OK: motor2", "OK: motor3", "OK: motor4" >>[n]
    /\ pc' = [pc EXCEPT !.msg = "snd"]
    /\ UNCHANGED << firmware_state, samples_counter, armed, inputs, special_command,
                    signal, initialized, motorSemaphore, mag_calibrating,
                    mag_calibrated, ret, i, st_args, msgBuf, txQueue, in_message,
                    index, expected_length, rxStream, nmsg, periods, delivered, sent, lastFrame,
                    trueReads, dropped, disarm >>
    /\ UNCHANGED << params, output, motors, uart, nreply, hal_fail, est >>

\* SPECIAL_COMMAND: controller.special_command = value; no reply is sent
MsgSpecial ==
    /\ pc.msg = "special"
    /\ special_command' = PayloadU16(msgBuf)
    /\ pc' = [pc EXCEPT !.msg = "wait"]
    /\ UNCHANGED << firmware_state, samples_counter, armed, inputs, thrust, signal,
                    initialized, motorSemaphore, mag_calibrating, mag_calibrated,
                    ret, i, st_args, msgBuf, reply, txQueue, in_message, index,
                    expected_length, rxStream, nmsg, periods, delivered, sent, lastFrame, held,
                    trueReads, dropped, disarm >>
    /\ UNCHANGED << params, output, motors, uart, nreply, hal_fail, est >>

\* MAG_CALIBRATE: gy271.calibrate(500, 20) starts and announces itself
MsgCalStart ==
    /\ pc.msg = "cal"
    /\ mag_calibrating' = TRUE
    /\ txQueue' = UART_Send(txQueue, "Starting magnetometer calibration. Please rotate the sensor in all directions.")
    /\ uart' = UartPut(uart, txQueue, "Starting magnetometer calibration. Please rotate the sensor in all directions.")
    /\ pc' = [pc EXCEPT !.msg = "cal_end"]
    /\ UNCHANGED << firmware_state, samples_counter, armed, inputs, special_command,
                    thrust, signal, initialized, motorSemaphore, mag_calibrated, ret,
                    i, st_args, msgBuf, reply, in_message, index, expected_length,
                    rxStream, nmsg, periods, delivered, sent, lastFrame, held, trueReads, dropped,
                    disarm >>
    /\ nreply' = nreply + Len(txQueue') - Len(txQueue)
    /\ UNCHANGED << params, output, motors, hal_fail, est >>

\* gy271.calibrate: after the samples, cal is written and the end announced
MsgCalEnd ==
    /\ pc.msg = "cal_end"
    /\ mag_calibrating' = FALSE
    /\ mag_calibrated' = TRUE
    /\ txQueue' = UART_Send(txQueue, "Magnetometer calibration completed.")
    /\ uart' = UartPut(uart, txQueue, "Magnetometer calibration completed.")
    /\ pc' = [pc EXCEPT !.msg = "wait"]
    /\ UNCHANGED << firmware_state, samples_counter, armed, inputs, special_command,
                    thrust, signal, initialized, motorSemaphore, ret, i, st_args,
                    msgBuf, reply, in_message, index, expected_length, rxStream,
                    nmsg, periods, delivered, sent, lastFrame, held, trueReads, dropped, disarm >>
    /\ nreply' = nreply + Len(txQueue') - Len(txQueue)
    /\ UNCHANGED << params, output, motors, hal_fail, est >>

\* send(reply): the acknowledgment or error text goes to the transmit queue
MsgSend ==
    /\ pc.msg = "snd"
    /\ txQueue' = UART_Send(txQueue, reply)
    /\ uart' = UartPut(uart, txQueue, reply)
    /\ pc' = [pc EXCEPT !.msg = "wait"]
    /\ UNCHANGED << firmware_state, samples_counter, armed, inputs, special_command,
                    thrust, signal, initialized, motorSemaphore, mag_calibrating,
                    mag_calibrated, ret, i, st_args, msgBuf, reply, in_message,
                    index, expected_length, rxStream, nmsg, periods, delivered, sent, lastFrame,
                    held, trueReads, dropped, disarm >>
    /\ nreply' = nreply + Len(txQueue') - Len(txQueue)
    /\ UNCHANGED << params, output, motors, hal_fail, est >>

(***************************************************************************)
(* Link receiver: the body of the while loop of MessageTask for one byte   *)
(***************************************************************************)
\* sizeof(msgBuf)
SizeofMsgBuf == 104

\* a header is never refused for its length byte
LengthNeverTooLong(payload_len) == FALSE
\* if (payload_len > 100): the length byte of the header is refused
LengthTooLong(payload_len) == payload_len > 100

\* the frame ends with the declared payload
ExpectedLengthDeclared(payload_len) == 3 + payload_len + 1
\* expected_length = 3 + 100 + 1, whatever the length byte payload_len is
ExpectedLength(payload_len) == 3 + 100 + 1

\* the fill index is left as it is when the parser goes idle
IdleIndexKept(idx) == idx
\* index = 0 where the parser resets in_message; idx is the index before
IdleIndex(idx) == 0

\* The parser's variables after byte has been read: buf, idx, inm and exp are
\* msgBuf, index, in_message and expected_length, and call tells whether
\* processBinaryMessage(msgBuf, expected_length) is called for this byte.
MessageTaskStep(buf, idx, inm, exp, byte) ==
    IF ~inm
    THEN IF byte = 170
         THEN [buf |-> [buf EXCEPT ![1] = byte], idx |-> 1, inm |-> TRUE, exp |-> 0,
               call |-> FALSE]
         ELSE [buf |-> buf, idx |-> idx, inm |-> inm, exp |-> exp, call |-> FALSE]
    ELSE LET buf1 == [buf EXCEPT ![idx + 1] = byte]
             idx1 == idx + 1
         IN  IF idx1 = 3 /\ LengthTooLong(buf1[3])
             THEN [buf |-> buf1, idx |-> IdleIndex(idx1), inm |-> FALSE, exp |-> exp,
                   call |-> FALSE]
             ELSE LET exp1 == IF idx1 = 3 THEN ExpectedLength(buf1[3]) ELSE exp
                  IN  IF exp1 > 0 /\ idx1 >= exp1
                      THEN [buf |-> buf1, idx |-> IdleIndex(idx1), inm |-> FALSE, exp |-> 0,
                            call |-> TRUE]
                      ELSE IF idx1 >= SizeofMsgBuf
                      THEN [buf |-> buf1, idx |-> IdleIndex(idx1), inm |-> FALSE, exp |-> 0,
                            call |-> FALSE]
                      ELSE [buf |-> buf1, idx |-> idx1, inm |-> inm, exp |-> exp1,
                            call |-> FALSE]

\* while (uartRxBuffer.get(byte)) { ... }: MessageTask takes the next byte
\* and, when the frame is complete, calls the dispatcher with it
ParseByte ==
    /\ pc.msg = "wait"
    /\ rxStream # << >>
    /\ rxStream' = Tail(rxStream)
    /\ LET r == MessageTaskStep(msgBuf, index, in_message, expected_length, Head(rxStream))
       IN  /\ msgBuf' = r.buf
           /\ index' = r.idx
           /\ in_message' = r.inm
           /\ expected_length' = r.exp
           /\ IF r.call
              THEN /\ Dispatch(r.buf)
                   /\ delivered' = Append(delivered, r.buf)
                   /\ nmsg' = nmsg + 1
                   /\ nreply' = 0
              ELSE UNCHANGED << pc, reply, st_args, delivered, nmsg, nreply >>
    /\ UNCHANGED << firmware_state, samples_counter, armed, inputs, special_command,
                    thrust, signal, initialized, motorSemaphore, mag_calibrating,
                    mag_calibrated, ret, i, txQueue, periods, sent, lastFrame, held,
                    trueReads, dropped, disarm >>
    /\ UNCHANGED << params, output, motors, uart, hal_fail, est >>

(***************************************************************************)
(* Receive path: circular DMA into rxBuffer, UART_IdleCallback (interrupt) *)
(* copying into the ring buffer, MessageTask draining it.  The interrupt   *)
(* runs to completion between two steps of the task (the task does not     *)
(* run while rx.isr holds); the task can be interrupted between any two of *)
(* its accesses to the ring buffer.                                        *)
(***************************************************************************)
\* the put that stores the byte and advances head also when the buffer is full
putUnchecked(rb, data) ==
    [rb |-> [rb EXCEPT !.buffer = IF rb.head < Len(@)
                                     THEN [@ EXCEPT ![rb.head + 1] = data]
                                     ELSE Append(@, data),
                       !.head = (rb.head + 1) % rb.size],
     ok |-> TRUE]
\* RingBuffer::put: the ring buffer afterwards and the return value.  The
\* sequence buffer holds the cells buffer[0 .. Len - 1] written so far (head
\* starts at 0 and advances by one, so they are contiguous): buffer[k] of the
\* code is element k + 1.
put(rb, data) ==
    LET next == (rb.head + 1) % rb.size
    IN  IF next = rb.tail
        THEN [rb |-> [rb EXCEPT !.overflow = TRUE], ok |-> FALSE]
        ELSE [rb |-> [rb EXCEPT !.buffer = IF rb.head < Len(@)
                                              THEN [@ EXCEPT ![rb.head + 1] = data]
                                              ELSE Append(@, data),
                                !.head = next],
              ok |-> TRUE]

\* rxBuffer[idx] once the circular DMA has written count bytes: the n-th byte
\* on the line has the value ((n - 1) % 169) + 1 (no start marker among them)
\* and goes to rxBuffer[(n - 1) % RX_BUFFER_SIZE]
rxBuffer(count, idx) ==
    IF count <= idx THEN 0
    ELSE LET n == count - ((count - 1 - idx) % RX_BUFFER_SIZE)
         IN  ((n - 1) % 169) + 1

\* osThreadFlagsSet without effect
FlagsSetLost(flag) == flag
\* osThreadFlagsSet(uartMsgTaskHandle, 0x01)
FlagsSet(flag) == TRUE

\* The host sends a burst of bytes, the DMA writes them into rxBuffer and the
\* line goes idle: the IDLE interrupt is pending.  (A burst of 0 bytes is an
\* IDLE interrupt without new data.)
DmaReceive ==
    /\ ~uart.rx.idle
    /\ ~uart.rx.isr
    /\ \E n \in {0, 1, 100, 128} :
        /\ n <= uart.rx.left
        /\ uart' = [uart EXCEPT !.rx.count = @ + n, !.rx.left = @ - n,
                                !.rx.idle = TRUE]
    /\ UNCHANGED << firmware_state, samples_counter, armed, inputs, special_command,
                    thrust, signal, initialized, motorSemaphore, mag_calibrating,
                    mag_calibrated, pc, ret, i, st_args, msgBuf, reply, txQueue,
                    in_message, index, expected_length, rxStream, params, output,
                    motors >>
    /\ UNCHANGED obsVars

\* UART_IdleCallback up to its loop: the IDLE flag is cleared, dma_pos and
\* bytes_to_copy are computed; without bytes to copy it ends at once with
\* old_pos = dma_pos and osThreadFlagsSet
UART_IdleCallback ==
    /\ uart.rx.idle
    /\ ~uart.rx.isr
    /\ LET dma_pos == uart.rx.count % RX_BUFFER_SIZE
           old_pos == uart.rx.old_pos
           bytes_to_copy == IF dma_pos >= old_pos THEN dma_pos - old_pos
                            ELSE RX_BUFFER_SIZE - old_pos + dma_pos
       IN  IF bytes_to_copy = 0
           THEN uart' = [uart EXCEPT !.rx.idle = FALSE, !.rx.old_pos = dma_pos,
                                     !.rx.flag = FlagsSet(@),
                                     !.rx.seen = uart.rx.count]
           ELSE uart' = [uart EXCEPT !.rx.idle = FALSE, !.rx.isr = TRUE, !.rx.i = 0,
                                     !.rx.dma_pos = dma_pos,
                                     !.rx.bytes_to_copy = bytes_to_copy]
    /\ UNCHANGED << firmware_state, samples_counter, armed, inputs, special_command,
                    thrust, signal, initialized, motorSemaphore, mag_calibrating,
                    mag_calibrated, pc, ret, i, st_args, msgBuf, reply, txQueue,
                    in_message, index, expected_length, rxStream, params, output,
                    motors >>
    /\ UNCHANGED obsVars

\* UART_IdleCallback, one pass of  for (i = 0; i < bytes_to_copy; i++)
\* uartRxBuffer.put(rxBuffer[(old_pos + i) % RX_BUFFER_SIZE]),  the return
\* value ignored; after the last pass old_pos = dma_pos and osThreadFlagsSet
IdleCopy ==
    /\ uart.rx.isr
    /\ LET data == rxBuffer(uart.rx.count, (uart.rx.old_pos + uart.rx.i) % RX_BUFFER_SIZE)
           r == put(uart.rx.ring, data)
           last == uart.rx.i + 1 >= uart.rx.bytes_to_copy
       IN  uart' = [uart EXCEPT !.rx.ring = r.rb,
                                !.rx.accepted = IF r.ok THEN Append(@, data) ELSE @,
                                !.rx.i = IF last THEN 0 ELSE @ + 1,
                                !.rx.isr = ~last,
                                !.rx.dma_pos = IF last THEN 0 ELSE @,
                                !.rx.bytes_to_copy = IF last THEN 0 ELSE @,
                                !.rx.old_pos = IF last THEN uart.rx.dma_pos ELSE @,
                                !.rx.flag = IF last THEN FlagsSet(@) ELSE @,
                                !.rx.seen = IF last THEN uart.rx.count ELSE @]
    /\ UNCHANGED << firmware_state, samples_counter, armed, inputs, special_command,
                    thrust, signal, initialized, motorSemaphore, mag_calibrating,
                    mag_calibrated, pc, ret, i, st_args, msgBuf, reply, txQueue,
                    in_message, index, expected_length, rxStream, params, output,
                    motors >>
    /\ UNCHANGED obsVars

\* MessageTask: osThreadFlagsWait(0x01, osFlagsWaitAny, osWaitForever) returns
\* and clears the flag
MsgWake ==
    /\ pc.msg = "wait"
    /\ ~uart.rx.isr
    /\ uart.rx.flag
    /\ uart' = [uart EXCEPT !.rx.flag = FALSE]
    /\ pc' = [pc EXCEPT !.msg = "get"]
    /\ UNCHANGED << firmware_state, samples_counter, armed, inputs, special_command,
                    thrust, signal, initialized, motorSemaphore, mag_calibrating,
                    mag_calibrated, ret, i, st_args, msgBuf, reply, txQueue,
                    in_message, index, expected_length, rxStream, params, output,
                    motors >>
    /\ UNCHANGED obsVars

\* RingBuffer::get, first part: if (isEmpty()) return false, which ends the
\* while loop of MessageTask; data = buffer[tail]
GetRead ==
    /\ pc.msg = "get"
    /\ ~uart.rx.isr
    /\ IF uart.rx.ring.head = uart.rx.ring.tail
       THEN /\ pc' = [pc EXCEPT !.msg = "wait"]
            /\ UNCHANGED uart
       ELSE /\ pc' = [pc EXCEPT !.msg = "adv"]
            /\ uart' = [uart EXCEPT !.rx.byte = uart.rx.ring.buffer[uart.rx.ring.tail + 1]]
    /\ UNCHANGED << firmware_state, samples_counter, armed, inputs, special_command,
                    thrust, signal, initialized, motorSemaphore, mag_calibrating,
                    mag_calibrated, ret, i, st_args, msgBuf, reply, txQueue,
                    in_message, index, expected_length, rxStream, params, output,
                    motors >>
    /\ UNCHANGED obsVars

\* RingBuffer::get, second part: tail = (tail + 1) % Size; return true; and
\* the body of the while loop for the byte (no frame completes: the bytes of
\* this line hold no start marker)
GetAdvance ==
    /\ pc.msg = "adv"
    /\ ~uart.rx.isr
    /\ uart' = [uart EXCEPT !.rx.ring.tail = (@ + 1) % uart.rx.ring.size,
                            !.rx.got = Append(@, uart.rx.byte)]
    /\ LET r == MessageTaskStep(msgBuf, index, in_message, expected_length, uart.rx.byte)
       IN  /\ msgBuf' = r.buf
           /\ index' = r.idx
           /\ in_message' = r.inm
           /\ expected_length' = r.exp
    /\ pc' = [pc EXCEPT !.msg = "get"]
    /\ UNCHANGED << firmware_state, samples_counter, armed, inputs, special_command,
                    thrust, signal, initialized, motorSemaphore, mag_calibrating,
                    mag_calibrated, ret, i, st_args, reply, txQueue, rxStream,
                    params, output, motors >>
    /\ UNCHANGED obsVars

\* the DMA, the interrupt and MessageTask
NextRx ==
    \/ DmaReceive
    \/ UART_IdleCallback
    \/ IdleCopy
    \/ MsgWake
    \/ GetRead
    \/ GetAdvance

SpecRx == Init /\ [][NextRx]_vars

\* the number of bytes the host sends in a run that starts with the ring
\* buffer nearly full
MaxRingRx == 4

\* MessageTask has not run yet while 509 bytes arrived in bursts of less than
\* 128: they are all in uartRxBuffer, which has room for two more; the thread
\* flag is set
InitRing ==
    /\ LET filled == RX_RING_SIZE - 3
           line == [k \in 1..filled |-> rxBuffer(k, (k - 1) % RX_BUFFER_SIZE)]
       IN  InitCommonWith([count |-> filled, left |-> MaxRingRx, idle |-> FALSE,
                           isr |-> FALSE, i |-> 0, dma_pos |-> 0, bytes_to_copy |-> 0,
                           old_pos |-> filled % RX_BUFFER_SIZE, flag |-> TRUE,
                           ring |-> [size |-> RX_RING_SIZE, buffer |-> line,
                                     head |-> filled, tail |-> 0, overflow |-> FALSE],
                           byte |-> 0, accepted |-> line, got |-> << >>,
                           seen |-> filled])
    /\ rxStream = << >>
    /\ sent = << >>

SpecRing == InitRing /\ [][NextRx]_vars

(***************************************************************************)
(* Specifications                                                          *)
(***************************************************************************)
Supervisor ==
    \/ SupTop
    \/ SupCheck
    \/ UpdateFirst
    \/ UpdateNext
    \/ UpdateLast
    \/ SetThrustFirst("sup")
    \/ SetThrustNext("sup")
    \/ SetThrustLast("sup")
    \/ SupCount
    \/ SupDelay

\* The host arms and disarms.
FramesArm == {ArmFrame, DisarmFrame}

NextArm ==
    \/ Supervisor
    \/ MessageArrives(FramesArm)
    \/ MsgArm
    \/ SetThrustFirst("msg")
    \/ SetThrustNext("msg")
    \/ SetThrustLast("msg")
    \/ MsgDisarm
    \/ MsgSend

SpecArm == Init /\ [][NextArm]_vars


\* The host arms, disarms and writes one motor's thrust.
FramesDisarm == {ArmFrame, DisarmFrame, MotorFrame(1, F_301)}

NextDisarm ==
    \/ Supervisor
    \/ MessageArrives(FramesDisarm)
    \/ MsgArm
    \/ SetThrustFirst("msg")
    \/ SetThrustNext("msg")
    \/ SetThrustLast("msg")
    \/ MsgDisarm
    \/ MsgMotor
    \/ MsgSend

SpecDisarm == Init /\ [][NextDisarm]_vars

(***************************************************************************)
(* Sample encoder: IKARUS_CommunicationManager::sendSample                 *)
(***************************************************************************)
\* sizeof(ikarus_log_data_t): sensors (15 floats), estimation (6 floats),
\* control outputs (4 uint16_t) and controller inputs (3 floats)
SizeofLogData == 15 * SizeofFloat + 6 * SizeofFloat + 4 * 2 + 3 * SizeofFloat

\* crc += msg.start; crc += msg.msg_type; crc += msg.payload_length; and the
\* loop  crc += msg.payload[i] : the sum of the bytes lo..hi of mem
RECURSIVE CrcSum(_, _, _)
CrcSum(mem, lo, hi) ==
    IF lo > hi THEN 0
    ELSE IF lo = hi THEN mem[lo]
    ELSE CrcSum(mem, lo, (lo + hi) \div 2) + CrcSum(mem, (lo + hi) \div 2 + 1, hi)

\* The frames sendSample() can hand to sendBinary() for the bytes at sample.
\* memcpy() copies sizeof(ikarus_log_data_t) bytes to msg.payload; the bytes
\* that do not fit the payload area land on msg.crc and behind msg.  The crc
\* loop reads payload[0 .. payload_length-1]; where that runs past the array
\* the build either reads the bytes lying there or stops at the array bound.
sendSample(sample) ==
    LET length == SizeofLogData % 256
        header == << IKARUS_MSG_START_BYTE, IKARUS_MSG_SAMPLE_UPDATE, length >>
        mem    == header \o sample
        inArea == IF length < IKARUS_MSG_MAX_PAYLOAD THEN length
                  ELSE IKARUS_MSG_MAX_PAYLOAD
        crcs   == { CrcSum(mem, 1, 3 + length) % 256, CrcSum(mem, 1, 3 + inArea) % 256 }
    IN  { header \o SubSeq(sample, 1, inArea) \o ZeroPad(IKARUS_MSG_MAX_PAYLOAD - inArea)
              \o << crc >> : crc \in crcs }

\* number of samples encoded
MaxSamples == 2

\* sample memory: zero everywhere but one byte
SampleWith(pos, v) == [k \in 1..SizeofLogData |-> IF k = pos THEN v ELSE 0]
Samples == { SampleWith(pos, v) : pos \in {1, 2, 100, 101, 104}, v \in {0, 1, 2, 255} }

\* comm.sendSample(sample)
SendSample ==
    /\ Len(txQueue) < MaxSamples
    /\ \E sample \in Samples :
           \E frame \in sendSample(sample) :
               /\ txQueue' = UART_Send(txQueue, frame)
               /\ uart' = UartPut(uart, txQueue, frame)
    /\ UNCHANGED << firmware_state, samples_counter, armed, inputs, special_command,
                    thrust, signal, initialized, motorSemaphore, mag_calibrating,
                    mag_calibrated, pc, ret, i, st_args, msgBuf, reply, in_message,
                    index, expected_length, rxStream, params, output, motors >>
    /\ UNCHANGED obsVars

NextEncode == SendSample

SpecEncode == Init /\ [][NextEncode]_vars

(***************************************************************************)
(* The control law alone: IKARUS_ControlManager::update applied to         *)
(* parameters, setpoints and estimates drawn from small sets.              *)
(***************************************************************************)
\* a quiet NaN and +infinity as payload bytes
F_NaN == << 0, 0, 192, 127 >>
F_Inf == << 0, 0, 128, 127 >>

\* gain sets, integrator values and thrust limits with thrust_min <= thrust_max
ControlParams ==
    { [Kp_roll |-> FNum(kp), Kd_roll |-> FNum(kd), Kp_pitch |-> FNum(kp),
       Kd_pitch |-> FNum(kd), Kp_yaw |-> FNum(kp), Ki_yaw |-> FNum(ki),
       Kd_yaw |-> FNum(kd), yaw_integrator |-> FNum(int), yaw_i_limit |-> FNum(lim),
       mix_roll |-> FNum(1), mix_pitch |-> FNum(1), mix_yaw |-> FNum(1),
       thrust_min |-> lo, thrust_max |-> hi, base_thrust |-> FNum(base)] :
      kp \in {0, 1}, kd \in {0, 1}, ki \in {0, 1}, int \in {0, 2, Pow2(24)},
      lim \in {1, Pow2(25)},
      lo \in {0, 1}, hi \in {1, 3}, base \in {0, 1} }

\* setpoints as the dispatcher stores them from PITCH/ROLL/YAW frames
ControlSetpoints ==
    { [roll |-> r, pitch |-> F_0, yaw |-> y] :
      r \in {F_0, F_1, F_NaN}, y \in {F_0, F_Neg1, F_Inf} }

InitControl ==
    /\ firmware_state = "RUNNING"
    /\ samples_counter = 0
    /\ armed = TRUE
    /\ inputs \in ControlSetpoints
    /\ special_command = 0
    /\ thrust = Zeros
    /\ signal = Zeros
    /\ initialized = TRUE
    /\ motorSemaphore = "free"
    /\ mag_calibrating = FALSE
    /\ mag_calibrated = FALSE
    /\ motors = "ok"
    /\ pc = [sup |-> "top", msg |-> "wait", boot |-> "done", tx |-> "get"]
    /\ ret = "next"
    /\ i = 0
    /\ st_args = [sup |-> Zeros, msg |-> Zeros]
    /\ msgBuf = ZeroFrame
    /\ reply = ""
    /\ txQueue = << >>
    /\ in_message = FALSE
    /\ index = 0
    /\ expected_length = 0
    /\ rxStream = << >>
    /\ params \in ControlParams
    /\ output = Zeros
    /\ nmsg = 0
    /\ periods = 0
    /\ delivered = << >>
    /\ sent = << >>
    /\ lastFrame = [state |-> "none", signal |-> Zeros, values |-> Zeros,
                    held |-> {Zeros}, law |-> Zeros,
                    buffer |-> [m \in Motors |-> << >>]]
    /\ held = {}
    /\ trueReads = 0
    /\ dropped = FALSE
    /\ disarm = "none"
    /\ nreply = 0
    /\ hal_fail = 0
    /\ est = Estimate(0, 0, 0, 0)
    /\ uart = [dma |-> << >>, flag |-> FALSE, wire |-> << >>, put |-> << >>,
               calls |-> 0, txBuffer |-> "",
               rx |-> [count |-> 0, left |-> MaxRx, idle |-> FALSE, isr |-> FALSE, i |-> 0, dma_pos |-> 0,
                       bytes_to_copy |-> 0, old_pos |-> 0, flag |-> FALSE,
                       ring |-> [size |-> RX_RING_SIZE, buffer |-> << >>, head |-> 0,
                                 tail |-> 0, overflow |-> FALSE],
                       byte |-> 0, accepted |-> << >>, got |-> << >>, seen |-> 0]]

\* controlManager.update()
ControlManagerUpdate ==
    /\ periods < MaxPeriods
    /\ periods' = periods + 1
    /\ \E state \in Estimates :
        /\ params' = ParamsAfter(params, inputs, state)
        /\ output' \in ControlOutputs(params, inputs, state)
        /\ est' = state
    /\ UNCHANGED << firmware_state, samples_counter, armed, inputs, special_command,
                    thrust, signal, initialized, motorSemaphore, mag_calibrating,
                    mag_calibrated, pc, ret, i, st_args, msgBuf, reply, txQueue,
                    in_message, index, expected_length, rxStream, motors, uart >>
    /\ UNCHANGED << nmsg, delivered, sent, lastFrame, held, trueReads, dropped, disarm,
                    nreply, hal_fail >>

NextControl == ControlManagerUpdate

SpecControl == InitControl /\ [][NextControl]_vars

(***************************************************************************)
(* The DShot encoder: IKARUS_MotorController::update with every throttle   *)
(* value in ThrustCommand.                                                 *)
(***************************************************************************)
\* every 11-bit throttle and values above it on the first motor, with the
\* extremes on the last one
DShotThrusts ==
    { [m \in Motors |-> IF m = 1 THEN v ELSE IF m = 4 THEN w ELSE 0] :
      v \in 0..2047 \cup {2048, 40000, 65535}, w \in {0, 2047} }

\* update() is about to run, in the window or in RUNNING
InitDShot ==
    /\ firmware_state \in {"UNARMED", "RUNNING"}
    /\ samples_counter = 0
    /\ armed = FALSE
    /\ inputs = [roll |-> F_0, pitch |-> F_0, yaw |-> F_0]
    /\ special_command = 0
    /\ thrust \in DShotThrusts
    /\ signal = Zeros
    /\ initialized = TRUE
    /\ motorSemaphore = "free"
    /\ mag_calibrating = FALSE
    /\ mag_calibrated = FALSE
    /\ pc = [sup |-> "upd1", msg |-> "wait", boot |-> "done", tx |-> "get"]
    /\ ret = "next"
    /\ i = 0
    /\ st_args = [sup |-> Zeros, msg |-> Zeros]
    /\ msgBuf = ZeroFrame
    /\ reply = ""
    /\ txQueue = << >>
    /\ in_message = FALSE
    /\ index = 0
    /\ expected_length = 0
    /\ nmsg = 0
    /\ periods = 0
    /\ delivered = << >>
    /\ lastFrame = [state |-> "none", signal |-> Zeros, values |-> Zeros,
                    held |-> {Zeros}, law |-> Zeros,
                    buffer |-> [m \in Motors |-> << >>]]
    /\ held = {}
    /\ trueReads = 0
    /\ dropped = FALSE
    /\ disarm = "none"
    /\ params = ZeroParams
    /\ output = Zeros
    /\ motors = "ok"
    /\ nreply = 0
    /\ hal_fail = 0
    /\ est = Estimate(0, 0, 0, 0)
    /\ uart = [dma |-> << >>, flag |-> FALSE, wire |-> << >>, put |-> << >>,
               calls |-> 0, txBuffer |-> "",
               rx |-> [count |-> 0, left |-> MaxRx, idle |-> FALSE, isr |-> FALSE, i |-> 0, dma_pos |-> 0,
                       bytes_to_copy |-> 0, old_pos |-> 0, flag |-> FALSE,
                       ring |-> [size |-> RX_RING_SIZE, buffer |-> << >>, head |-> 0,
                                 tail |-> 0, overflow |-> FALSE],
                       byte |-> 0, accepted |-> << >>, got |-> << >>, seen |-> 0]]
    /\ rxStream = << >>
    /\ sent = << >>

NextDShot ==
    \/ UpdateFirst
    \/ UpdateNext
    \/ UpdateLast

SpecDShot == InitDShot /\ [][NextDShot]_vars

(***************************************************************************)
(* The RUNNING case of the control task over many periods, with the arm    *)
(* flag set and no command from the host.                                  *)
(***************************************************************************)
\* the number of periods of the control law in a run
MaxCadence == 21

NextCadence ==
    \/ SupTopBounded(MaxCadence)
    \/ UpdateFirst
    \/ UpdateNext
    \/ UpdateLast
    \/ SupCount
    \/ SupDelay

\* RUNNING and armed, with all gains 0 and zero setpoints
InitCadence ==
    /\ InitControl
    /\ inputs = [roll |-> F_0, pitch |-> F_0, yaw |-> F_0]
    /\ params = [ZeroParams EXCEPT !.yaw_i_limit = FNum(1), !.mix_roll = FNum(1),
                                   !.mix_pitch = FNum(1), !.mix_yaw = FNum(1),
                                   !.thrust_max = 1]

SpecCadence == InitCadence /\ [][NextCadence]_vars

(***************************************************************************)
(* A PWM/DMA start that fails: Motor::updatePWM calls Error_Handler().     *)
(***************************************************************************)
\* status codes with which HAL_TIM_PWM_Start_DMA reports a failed start
HalFailures == {"HAL_ERROR", "HAL_BUSY"}

\* if (HAL_TIM_PWM_Start_DMA(_htim, _channel, _dshotBuffer, 17))
PwmStartFailedIgnored(status) == FALSE
PwmStartFailed(status) == status # "HAL_OK"

\* Error_Handler(): the system transitions to ERROR and normal operation halts;
\* the handler does not return to update()
Error_Handler ==
    /\ firmware_state' = "ERROR"
    /\ pc' = [pc EXCEPT !.sup = "halt"]

\* update(): motors[3]->setSignal(thrust4), then the updatePWM() calls, of
\* which the one for channel ch is the first whose start fails
UpdateFault ==
    /\ pc.sup = "upd4"
    /\ signal' = [signal EXCEPT ![4] = thrust[4]]
    /\ \E ch \in Motors, status \in HalFailures :
        /\ hal_fail' = ch
        /\ IF PwmStartFailed(status)
           THEN /\ Error_Handler
                /\ UNCHANGED << lastFrame, held, motorSemaphore, i >>
           ELSE /\ lastFrame' = [state |-> firmware_state,
                                 signal |-> signal',
                                 values |-> [m \in Motors |-> DShotValue(signal'[m])],
                                 held |-> held,
                                 law |-> output,
                                 buffer |-> [m \in Motors |-> prepare_dshot_buffer(signal'[m])]]
                /\ held' = {}
                /\ motorSemaphore' = "free"
                /\ UpdateReturn
    /\ UNCHANGED << samples_counter, armed, inputs, special_command, thrust,
                    initialized, mag_calibrating, mag_calibrated, ret, st_args,
                    msgBuf, reply, txQueue, in_message, index, expected_length,
                    rxStream, nmsg, periods, delivered, sent, trueReads, dropped, disarm >>
    /\ UNCHANGED << params, output, motors, uart, nreply, est >>

\* The supervisor with PWM/DMA start failures, while the host arms and disarms.
NextFault ==
    \/ Supervisor
    \/ UpdateFault
    \/ MessageArrives(FramesArm)
    \/ MsgArm
    \/ SetThrustFirst("msg")
    \/ SetThrustNext("msg")
    \/ SetThrustLast("msg")
    \/ MsgDisarm
    \/ MsgSend

SpecFault == Init /\ [][NextFault]_vars

(***************************************************************************)
(* Start-up: IKARUS_Firmware::start, run by the helper task after init().  *)
(* The helper task has a lower priority than the control task and          *)
(* MessageTask, so it runs only while both of them are blocked.            *)
(***************************************************************************)
\* Results of the four  new Motor()  of IKARUS_MotorController::init: every
\* motor allocated, or the nullptr that IKARUS_MotorController::start tests for.
MotorAllocations == {"ok", "null"}

\* The state after IKARUS_Firmware::init() has returned.  With a nullptr in
\* motors[], motors[i]->init() has written through it: either the write went
\* to the memory at address 0 and init() went on, or it faulted and the
\* firmware stopped there.
InitBoot ==
    /\ firmware_state = "UNARMED"
    /\ samples_counter = 0
    /\ armed = FALSE
    /\ inputs = [roll |-> F_0, pitch |-> F_0, yaw |-> F_0]
    /\ special_command = 0
    /\ thrust = Zeros
    /\ signal = Zeros
    /\ initialized = FALSE
    /\ motorSemaphore = "free"
    /\ mag_calibrating = FALSE
    /\ mag_calibrated = FALSE
    /\ motors \in MotorAllocations
    /\ pc \in {[sup |-> "none", msg |-> "wait", boot |-> "start", tx |-> "get"]} \cup
              (IF motors = "null"
               THEN {[sup |-> "none", msg |-> "fault", boot |-> "fault", tx |-> "get"]}
               ELSE {})
    /\ ret = "next"
    /\ i = 0
    /\ st_args = [sup |-> Zeros, msg |-> Zeros]
    /\ msgBuf = ZeroFrame
    /\ reply = ""
    /\ txQueue = << >>
    /\ in_message = FALSE
    /\ index = 0
    /\ expected_length = 0
    /\ rxStream = << >>
    /\ params = ZeroParams
    /\ output = Zeros
    /\ nmsg = 0
    /\ periods = 0
    /\ delivered = << >>
    /\ sent = << >>
    /\ lastFrame = [state |-> "none", signal |-> Zeros, values |-> Zeros,
                    held |-> {Zeros}, law |-> Zeros,
                    buffer |-> [m \in Motors |-> << >>]]
    /\ held = {}
    /\ trueReads = 0
    /\ dropped = FALSE
    /\ disarm = "none"
    /\ nreply = 0
    /\ hal_fail = 0
    /\ est = Estimate(0, 0, 0, 0)
    /\ uart = [dma |-> << >>, flag |-> FALSE, wire |-> << >>, put |-> << >>,
               calls |-> 0, txBuffer |-> "",
               rx |-> [count |-> 0, left |-> MaxRx, idle |-> FALSE, isr |-> FALSE, i |-> 0, dma_pos |-> 0,
                       bytes_to_copy |-> 0, old_pos |-> 0, flag |-> FALSE,
                       ring |-> [size |-> RX_RING_SIZE, buffer |-> << >>, head |-> 0,
                                 tail |-> 0, overflow |-> FALSE],
                       byte |-> 0, accepted |-> << >>, got |-> << >>, seen |-> 0]]

\* the control task and MessageTask are blocked or do not exist yet
HelperRuns == pc.sup \in {"none", "delay", "halt"} /\ pc.msg = "wait"

\* motorController.start(): the nullptr test, initialized = true, setThrust(0,0,0,0)
BootStart ==
    /\ pc.boot = "start"
    /\ HelperRuns
    /\ motorSemaphore = "free"
    /\ firmware_state' = IF motors = "null" THEN "ERROR" ELSE firmware_state
    /\ initialized' = TRUE
    /\ WriteThrust(Zeros)
    /\ pc' = [pc EXCEPT !.boot = "thread"]
    /\ UNCHANGED << samples_counter, armed, inputs, special_command, signal,
                    motorSemaphore, mag_calibrating, mag_calibrated, ret, i, st_args,
                    msgBuf, reply, txQueue, in_message, index, expected_length,
                    rxStream, params, output, motors, uart >>
    /\ UNCHANGED obsVars

\* sensors.start() .. controlManager.start(), which zeroes _output, and
\* osThreadNew(start_firmware_control_task)
BootThread ==
    /\ pc.boot = "thread"
    /\ HelperRuns
    /\ output' = Zeros
    /\ pc' = [pc EXCEPT !.sup = "top", !.boot = "state"]
    /\ UNCHANGED << firmware_state, samples_counter, armed, inputs, special_command,
                    thrust, signal, initialized, motorSemaphore, mag_calibrating,
                    mag_calibrated, ret, i, st_args, msgBuf, reply, txQueue,
                    in_message, index, expected_length, rxStream, params, motors, uart >>
    /\ UNCHANGED obsVars

\* this->firmware_state = IKARUS_FIRMWARE_STATE_UNARMED
BootState ==
    /\ pc.boot = "state"
    /\ HelperRuns
    /\ firmware_state' = "UNARMED"
    /\ pc' = [pc EXCEPT !.boot = "done"]
    /\ UNCHANGED << samples_counter, armed, inputs, special_command, thrust, signal,
                    initialized, motorSemaphore, mag_calibrating, mag_calibrated,
                    ret, i, st_args, msgBuf, reply, txQueue, in_message, index,
                    expected_length, rxStream, params, output, motors, uart >>
    /\ UNCHANGED obsVars

\* Start-up, then the supervisor while the host arms and disarms.
NextBoot ==
    \/ BootStart
    \/ BootThread
    \/ BootState
    \/ Supervisor
    \/ MessageArrives(FramesArm)
    \/ MsgArm
    \/ SetThrustFirst("msg")
    \/ SetThrustNext("msg")
    \/ SetThrustLast("msg")
    \/ MsgDisarm
    \/ MsgSend

SpecBoot == InitBoot /\ [][NextBoot]_vars

\* The host arms, disarms, commands all four motors and overrides single
\* motors.
FramesMain == {ArmFrame, DisarmFrame, ThrustFrame(F_2, F_2, F_2, F_2),
               MotorFrame(1, F_301), MotorFrame(2, F_1)}

Next ==
    \/ Supervisor
    \/ MessageArrives(FramesMain)
    \/ MsgArm
    \/ SetThrustFirst("msg")
    \/ SetThrustNext("msg")
    \/ SetThrustLast("msg")
    \/ MsgDisarm
    \/ MsgMotor
    \/ MsgSend

Spec == Init /\ [][Next]_vars


\* The host sends every kind of frame to the dispatcher: well-formed frames
\* of every type, frames with a wrong start byte, an over-long declared
\* length or a corrupted checksum, and checksummed frames whose type is
\* unknown or whose declared length does not fit the type.
FramesValid ==
    { ArmFrame, DisarmFrame, ThrustFrame(F_2, F_301, F_0, F_1),
      GoodFrame(IKARUS_MSG_PITCH, F_1), GoodFrame(IKARUS_MSG_ROLL, F_2),
      GoodFrame(IKARUS_MSG_YAW, F_Neg1), MotorFrame(1, F_301), MotorFrame(3, F_1),
      GoodFrame(IKARUS_SPECIAL_COMMAND, << 7, 0 >>),
      GoodFrame(IKARUS_MAG_CALIBRATE, << >>) }
FramesBadFraming ==
    { HostFrame(85, IKARUS_MSG_ARMING, 1, << 1 >>, 0),
      HostFrame(IKARUS_MSG_START_BYTE, IKARUS_MSG_THRUST, 101, F_2 \o F_2 \o F_2 \o F_2, 0),
      HostFrame(IKARUS_MSG_START_BYTE, IKARUS_MSG_ARMING, 1, << 1 >>, 1),
      HostFrame(IKARUS_MSG_START_BYTE, IKARUS_SPECIAL_COMMAND, 2, << 7, 0 >>, 255) }
FramesMismatched ==
    { HostFrame(IKARUS_MSG_START_BYTE, IKARUS_MSG_ARMING, 2, << 1, 0 >>, 0),
      HostFrame(IKARUS_MSG_START_BYTE, IKARUS_MSG_ARMING, 1, << 2 >>, 0),
      HostFrame(IKARUS_MSG_START_BYTE, IKARUS_MSG_THRUST, 4, F_2, 0),
      HostFrame(IKARUS_MSG_START_BYTE, IKARUS_MSG_PITCH, 1, F_1, 0),
      HostFrame(IKARUS_MSG_START_BYTE, IKARUS_MSG_MOTOR2, 16, F_1 \o F_1 \o F_1 \o F_1, 0),
      HostFrame(IKARUS_MSG_START_BYTE, 9, 4, F_1, 0),
      HostFrame(IKARUS_MSG_START_BYTE, IKARUS_MSG_SAMPLE_UPDATE, 0, << >>, 0),
      HostFrame(IKARUS_MSG_START_BYTE, IKARUS_SPECIAL_COMMAND, 1, << 7, 0 >>, 0),
      HostFrame(IKARUS_MSG_START_BYTE, IKARUS_MAG_CALIBRATE, 3, << 1, 2, 3 >>, 0) }
FramesDispatch == FramesValid \cup FramesBadFraming \cup FramesMismatched

\* The dispatcher alone: MessageTask hands it frame after frame.
NextDispatch ==
    \/ MessageArrives(FramesDispatch)
    \/ MsgArm
    \/ SetThrustFirst("msg")
    \/ SetThrustNext("msg")
    \/ SetThrustLast("msg")
    \/ MsgDisarm
    \/ MsgSetpoint
    \/ MsgMotor
    \/ MsgSpecial
    \/ MsgCalStart
    \/ MsgCalEnd
    \/ MsgSend

SpecDispatch == Init /\ [][NextDispatch]_vars


\* 85.0, whose encoding contains the byte 0xAA
F_85 == << 0, 0, 170, 66 >>

\* the longest noise before the frame
MaxNoise == 3
\* noise bytes: the start marker, a small and a large length byte, and another
NoiseBytes == {170, 0, 1, 200}
Noise == UNION { [1..n -> NoiseBytes] : n \in 0..MaxNoise }
FramesParser == {ArmFrame, GoodFrame(IKARUS_MSG_PITCH, F_85)}

\* The link delivers noise followed by one well-formed frame.
InitParser ==
    /\ InitCommon
    /\ \E noise \in Noise, f \in FramesParser :
          rxStream = noise \o f /\ sent = << f >>

NextParser ==
    \/ ParseByte
    \/ MsgArm
    \/ MsgSetpoint
    \/ MsgSend

SpecParser == InitParser /\ [][NextParser]_vars


(***************************************************************************)
(* Properties                                                              *)
(***************************************************************************)
\* C1 (arming gate): every motor frame that update() sends while
\* firmware_state is UNARMED carries throttle 0 on all four motors, and a
\* frame with a nonzero throttle is sent only while firmware_state is RUNNING.
C1_ArmingGate ==
    /\ lastFrame.state = "UNARMED" => lastFrame.values = Zeros
    /\ lastFrame.values # Zeros => lastFrame.state = "RUNNING"

\* C2 (emergency disarm): when ArmState becomes false while firmware_state is
\* RUNNING, then at the end of the next supervisor period (the first period
\* that starts after the disarm) firmware_state is UNARMED and ThrustCommand
\* is (0,0,0,0).
C2_EmergencyDisarm ==
    [][ (pc.sup = "delay" /\ pc'.sup = "top" /\ disarm = "started")
          => (firmware_state' = "UNARMED" /\ thrust' = Zeros) ]_vars

\* C3 (arming confirmation): firmware_state becomes RUNNING only at the end
\* of an arming-confirmation window in which 160 checks read ArmState true,
\* and every window in which 160 checks read true ends in RUNNING.
C3_ArmingConfirmation ==
    [][ /\ (firmware_state # "RUNNING" /\ firmware_state' = "RUNNING")
            => (InWindow /\ ~InWindow' /\ trueReads = 160)
        /\ (InWindow /\ ~InWindow' /\ trueReads = 160)
            => (firmware_state = "UNARMED" /\ firmware_state' = "RUNNING") ]_vars

\* a window of 160 true checks has just ended in RUNNING
C3_Witness ==
    firmware_state = "RUNNING" /\ pc.sup = "delay" /\ trueReads = 160 /\ periods = 0

\* C4 (abort on an observed drop): a confirmation check that reads ArmState
\* false ends the window with firmware_state still UNARMED; every window
\* starts its loop counter at 0, and RUNNING is entered only by a window
\* whose own 160 checks read true.
C4_AbortOnObservedDrop ==
    [][ /\ (pc.sup = "loop" /\ pc'.sup # "loop" /\ ~armed)
            => (~InWindow' /\ firmware_state' = "UNARMED" /\ trueReads' < 160)
        /\ (~InWindow /\ InWindow') => (i' = 0 /\ trueReads' = 0)
        /\ (firmware_state = "UNARMED" /\ firmware_state' = "RUNNING")
            => (i = 159 /\ trueReads = 160) ]_vars

\* the 80th check of a window has just read ArmState false
C4_Witness ==
    /\ pc.sup = "delay" /\ trueReads = 79 /\ ~armed
    /\ firmware_state = "UNARMED" /\ lastFrame.state = "UNARMED"

\* C5 (unbroken arming): a window during which ArmState was false at some
\* moment does not end in RUNNING.
C5_UnbrokenArming ==
    [][ (firmware_state = "UNARMED" /\ firmware_state' = "RUNNING") => ~dropped ]_vars

\* C6 (thrust range): every stored ThrustCommand value is within the bounded
\* thrust range, whose upper bound is the 300 that setThrust clamps to.
C6_ThrustRange == \A m \in Motors : thrust[m] >= 0 /\ thrust[m] <= 300

\* C10 (tuple atomicity): the four values update() sent are a tuple that
\* ThrustCommand held as a whole at some instant of that update().
C10_TupleAtomicity == lastFrame.signal \in lastFrame.held

\* the shared state the dispatcher can write, and the replies it can send
SharedState == << armed, inputs, thrust, special_command, mag_calibrating, mag_calibrated >>
OkReplies == { "OK: armed", "OK: disarmed", "OK: thrust", "OK: pitch", "OK: roll",
               "OK: yaw", "OK: motor1", "OK: motor2", "OK: motor3", "OK: motor4" }
ErrReplies == { "ERR: msg too short", "ERR: invalid start", "ERR: invalid length",
                "ERR: CRC mismatch", "ERR: invalid arming payload",
                "ERR: invalid arming value", "ERR: invalid thrust payload",
                "ERR: invalid float payload", "ERR: invalid motor payload",
                "ERR: unknown type" }
\* this step puts reply r in the transmit queue
Sends(r) == Len(txQueue') = Len(txQueue) + 1 /\ txQueue'[Len(txQueue')] = r
\* start byte 0xAA, declared length at most 100, and the checksum byte equal
\* to the low 8 bits of the sum of the header and the declared payload
FrameValid(d) ==
    /\ d[1] = 170
    /\ d[3] <= 100
    /\ d[104] = HostSum(d, 3 + d[3]) % 256

\* C7 (validated dispatch): the dispatcher changes shared state or sends an
\* OK acknowledgment only while it processes a frame whose start byte is
\* 0xAA, whose declared length is at most 100 and whose checksum is right;
\* for any other frame the shared state stays as it is.
C7_ValidatedDispatch ==
    [][ (SharedState' # SharedState \/ \E r \in OkReplies : Sends(r))
          => FrameValid(msgBuf) ]_vars

\* a frame with a corrupted checksum has been refused and nothing changed
C7_Witness ==
    /\ pc.msg = "wait" /\ nmsg = 1
    /\ msgBuf[1] = 170 /\ msgBuf[3] = 1 /\ ~FrameValid(msgBuf)
    /\ txQueue = << "ERR: CRC mismatch" >>
    /\ ~armed /\ thrust = Zeros /\ special_command = 0

\* the payload size of each type of frame
PayloadSize(t) ==
    IF t = IKARUS_MSG_ARMING THEN 1
    ELSE IF t = IKARUS_MSG_THRUST THEN 16
    ELSE IF t \in {IKARUS_MSG_PITCH, IKARUS_MSG_ROLL, IKARUS_MSG_YAW, IKARUS_MSG_MOTOR1,
                   IKARUS_MSG_MOTOR2, IKARUS_MSG_MOTOR3, IKARUS_MSG_MOTOR4} THEN 4
    ELSE IF t = IKARUS_MAG_CALIBRATE THEN 0
    ELSE IF t = IKARUS_SPECIAL_COMMAND THEN 2
    ELSE -1
\* a validated frame of unknown type or with a length that does not fit its type
Mismatched(d) == FrameValid(d) /\ d[3] # PayloadSize(d[2])

\* C9 (rejection is side-effect free): while the dispatcher processes a
\* validated frame whose type is unknown or whose declared length does not
\* fit its type, the shared state does not change and no calibration starts,
\* and the dispatcher finishes the frame by sending an error reply.
C9_RejectionSideEffectFree ==
    [][ Mismatched(msgBuf)
          => /\ SharedState' = SharedState
             /\ (pc.msg # "wait" /\ pc'.msg = "wait") => \E r \in ErrReplies : Sends(r) ]_vars

\* C8 (resynchronisation): once MessageTask has read the whole stream of noise
\* followed by one well-formed frame, it has handed exactly that frame, with
\* its bytes intact, to the dispatcher.
C8_Resynchronisation ==
    (sent # << >> /\ rxStream = << >> /\ pc.msg = "wait") => delivered = sent

\* C11: every step of the control task or of the dispatcher task that writes a
\* ThrustCommand field is taken while that task holds the motor semaphore
\* (the acquire is part of the first protected access, the release of the last).
C11_LockDiscipline ==
    [][thrust' # thrust =>
          \E t \in {"sup", "msg"} :
              /\ pc'[t] # pc[t]
              /\ motorSemaphore = t \/ motorSemaphore' = t]_vars

\* C12: the motor frame sent by the update() of a RUNNING period carries the
\* four values the control law computed in that period.
C12_ControlOutputReachesMotors ==
    lastFrame.state = "RUNNING" => lastFrame.signal = lastFrame.law

\* C13: ArmState is true only while FirmwareState is not ERROR.
C13_NoArmInError == armed => firmware_state # "ERROR"

\* C14: once FirmwareState is ERROR no step changes it.
C14_ErrorTerminal == [][firmware_state = "ERROR" => firmware_state' = "ERROR"]_vars

\* C19: every step that changes FirmwareState is a step of the supervisor: of
\* the control task running IKARUS_Firmware::task, or of the assignment in
\* IKARUS_Firmware::start.
C19_SingleOwner ==
    [][firmware_state' # firmware_state =>
          (pc'.sup # pc.sup \/ pc.boot = "state")]_vars

C16_EveryCommandReplied ==
    [][(pc.msg # "wait" /\ pc'.msg = "wait") => nreply' >= 1]_vars

\* C17: the step that clears ArmState for a DISARM message starts and ends
\* with ThrustCommand equal to (0,0,0,0) and ends with ArmState false.
C17_DisarmHandling ==
    [][(pc.msg = "disarm" /\ pc'.msg # "disarm") =>
          (thrust = Zeros /\ thrust' = Zeros /\ ~armed')]_vars

\* a DISARM has just cleared ArmState after a nonzero thrust had been stored
\* and handed to the motors
C17_Witness ==
    /\ pc.msg = "snd"
    /\ reply = "OK: disarmed"
    /\ ~armed
    /\ thrust = Zeros
    /\ signal # Zeros

\* C18: every frame the sample encoder emits has the start byte, declares a
\* length of at most IKARUS_MSG_MAX_PAYLOAD, carries the low byte of the sum of
\* header and payload as checksum, and passes the decoder's checks.
C18_EncoderDecodable ==
    \A k \in 1..Len(txQueue) :
        /\ MsgStart(txQueue[k]) = IKARUS_MSG_START_BYTE
        /\ MsgPayloadLength(txQueue[k]) <= IKARUS_MSG_MAX_PAYLOAD
        /\ Verdict(txQueue[k]) = "OK"

\* C20: after an update of the control law with thrust_min <= thrust_max, each
\* of the four outputs lies in [thrust_min, thrust_max].
C20_ControlOutputRange ==
    (periods > 0 /\ params.thrust_min <= params.thrust_max) =>
        \A m \in Motors :
            params.thrust_min <= output[m] /\ output[m] <= params.thrust_max

\* the last update of the control law read an estimate equal to the setpoint
ZeroError ==
    /\ periods > 0
    /\ F32Value(inputs.roll) = est.roll
    /\ F32Value(inputs.pitch) = est.pitch
    /\ F32Value(inputs.yaw) = est.yaw

\* thrust_min + base_thrust * (thrust_max - thrust_min)
BaseThrust ==
    params.thrust_min + params.base_thrust.v * (params.thrust_max - params.thrust_min)

ZeroRates ==
    /\ est.roll_dot = FNum(0)
    /\ est.pitch_dot = FNum(0)
    /\ est.yaw_dot = FNum(0)

C22_YawAntiWindup ==
    LET FLeq(a, b) == a.k # "nan" /\ b.k # "nan" /\ ~FLess(b, a)
    IN  (periods > 0 /\ FLeq(FNum(0), params.yaw_i_limit)) =>
            /\ FLeq(FNeg(params.yaw_i_limit), params.yaw_integrator)
            /\ FLeq(params.yaw_integrator, params.yaw_i_limit)

\* C23: under a constant nonzero yaw error with Ki_yaw > 0 the yaw integrator
\* reaches exactly +yaw_i_limit (positive error) or -yaw_i_limit (negative
\* error) after finitely many updates and then keeps it.  The update is a
\* function of the integrator and the error, so this requires that an update
\* leaves the integrator unchanged exactly when it already is at that limit.
C23_YawIntegratorSaturation ==
    [][ LET e_yaw  == FSub(F32Value(inputs.yaw), est'.yaw)
            target == IF FLess(FNum(0), e_yaw) THEN params.yaw_i_limit
                      ELSE FNeg(params.yaw_i_limit)
        IN  ( /\ periods' = periods + 1
              /\ FLess(FNum(0), params.Ki_yaw)
              /\ FLess(FNum(0), e_yaw) \/ FLess(e_yaw, FNum(0)) ) =>
                ( params'.yaw_integrator = params.yaw_integrator
                    <=> params.yaw_integrator = target ) ]_vars

\* the scaled roll, pitch and yaw deltas of the last update
RollDelta ==
    FMul(params.mix_roll,
         FSub(FMul(params.Kp_roll, FSub(F32Value(inputs.roll), est.roll)),
              FMul(params.Kd_roll, est.roll_dot)))
PitchDelta ==
    FMul(params.mix_pitch,
         FSub(FMul(params.Kp_pitch, FSub(F32Value(inputs.pitch), est.pitch)),
              FMul(params.Kd_pitch, est.pitch_dot)))
YawDelta ==
    FMul(params.mix_yaw,
         FAdd(FAdd(FMul(params.Kp_yaw, FSub(F32Value(inputs.yaw), est.yaw)),
                   params.yaw_integrator),
              FMul(FNeg(params.Kd_yaw), est.yaw_dot)))

\* v limited to [thrust_min, thrust_max]; an unordered v is left as it is
Clamped(v) ==
    IF FLess(v, FNum(params.thrust_min)) THEN FNum(params.thrust_min)
    ELSE IF FLess(FNum(params.thrust_max), v) THEN FNum(params.thrust_max)
    ELSE v

SentBit(m, b) == IF 2 * lastFrame.buffer[m][16 - b] > PERIOD THEN 1 ELSE 0

\* C25: for a throttle v in 0..2047 the upper 12 bits of the frame sent are v
\* shifted left by one (telemetry bit 0) and the low 4 bits are the xor of the
\* three nibbles of these 12 bits.
C25_DShotChecksum ==
    \A m \in Motors :
        (lastFrame.state # "none" /\ lastFrame.signal[m] <= 2047) =>
            /\ SentBit(m, 4) = 0
            /\ \A b \in 5..15 :
                SentBit(m, b) = (lastFrame.signal[m] \div Pow2(b - 5)) % 2
            /\ \A j \in 0..3 :
                SentBit(m, j) =
                    (SentBit(m, j + 4) + SentBit(m, j + 8) + SentBit(m, j + 12)) % 2

\* throttle 1046 = 10000010110b: payload 0x82C, checksum 8 ^ 2 ^ C = 6
C25_Witness ==
    /\ lastFrame.state # "none"
    /\ lastFrame.signal[1] = 1046
    /\ [b \in 0..15 |-> SentBit(1, 15 - b)] =
           [b \in 0..15 |-> << 1, 0, 0, 0, 0, 0, 1, 0, 1, 1, 0, 0, 0, 1, 1, 0 >>[b + 1]]

C27_TransmitterOrdering ==
    [][ /\ uart'.wire \o uart'.dma \o txQueue' = uart'.put
        /\ Len(uart'.dma) <= 1
        /\ (txQueue # << >> /\ txQueue' = Tail(txQueue)) =>
              /\ uart.dma = << >>
              /\ uart'.dma = << Head(txQueue) >> ]_vars

\* two different frames have been sent in their order, a third is in flight
\* and a fourth waits
C27_Witness ==
    /\ uart.wire = << "OK: armed", "OK: disarmed" >>
    /\ uart.dma = << "OK: armed" >>
    /\ txQueue = << "OK: disarmed" >>
    /\ pc.tx = "wait"

\* C28: the transmit queue never holds more than 10 frames, and a call of
\* UART_Send on a full queue returns (the call is counted) with the queue as
\* it was: the new message is dropped, the queued frames keep their order.
C28_BoundedTransmitQueue ==
    [][ /\ Len(txQueue') <= 10
        /\ (uart'.calls = uart.calls + 1 /\ Len(txQueue) = 10) =>
              /\ txQueue' = txQueue
              /\ uart'.put = uart.put
              /\ pc' = pc
        /\ (uart'.calls = uart.calls + 1 /\ Len(txQueue) < 10) =>
              /\ Len(txQueue') = Len(txQueue) + 1
              /\ SubSeq(txQueue', 1, Len(txQueue)) = txQueue ]_vars

\* the eleventh message was dropped on a queue of ten
C28_Witness ==
    /\ Len(txQueue) = 10
    /\ uart.calls = 11
    /\ Len(uart.put) = 10
    /\ txQueue = uart.put

\* C29: in RUNNING with the arm flag set, a sample is handed to the transmit
\* queue in exactly every 10th period of the control law and in no other, and
\* between two periods the sample counter is in 0..9: it is the number of
\* periods modulo 10, and the samples sent are the number of periods over 10.
C29_TelemetryCadence ==
    (firmware_state = "RUNNING" /\ armed /\ pc.sup \in {"top", "delay"}) =>
        /\ samples_counter \in 0..9
        /\ samples_counter = periods % 10
        /\ uart.calls = periods \div 10
        /\ uart.put = [k \in 1..uart.calls |-> "SAMPLE"]

\* the 20th period is over: the second sample is in the queue and the counter
\* is 0 again
C29_Witness ==
    /\ firmware_state = "RUNNING"
    /\ armed
    /\ pc.sup = "delay"
    /\ periods = 20
    /\ samples_counter = 0
    /\ txQueue = << "SAMPLE", "SAMPLE" >>

C32_OverLengthReset ==
    [][ rxStream' # rxStream =>
          /\ (in_message /\ index = 2 /\ Head(rxStream) > 100) =>
                /\ ~in_message' /\ index' = 0
                /\ delivered' = delivered /\ nmsg' = nmsg /\ pc' = pc
          /\ (~in_message /\ Head(rxStream) = 170) =>
                /\ in_message' /\ index' = 1 /\ msgBuf'[1] = 170 ]_vars

\* a header with length byte 200 was dropped (it is still in the buffer), and
\* the start marker of the frame that followed has begun a new frame
C32_Witness ==
    /\ in_message
    /\ index = 1
    /\ msgBuf[1] = 170
    /\ msgBuf[3] = 200
    /\ delivered = << >>
    /\ Len(rxStream) = 103

\* C40: the fill index is at most 104 after every byte, every byte is stored
\* at an index in 0..103 (position index + 1 of the sequence msgBuf), and the
\* fill index is 0 whenever the parser is idle.
C40_ParserBufferBound ==
    [][ /\ index' <= 104
        /\ ~in_message' => index' = 0
        /\ (rxStream' # rxStream /\ in_message) => index \in 0..103 ]_vars

\* the buffer holds 103 bytes and waits for the last one
C40_Witness == in_message /\ index = 103 /\ expected_length = 104

\* min(t, 300) truncated to an integer, for the four bytes b of a float t >= 0
MinTruncated(b) ==
    IF F32IsBig(b) \/ F32Trunc(b) >= THRUST_LIMIT THEN THRUST_LIMIT ELSE F32Trunc(b)

\* the arguments of the setThrust call that task t is in: (0, 0, 0, 0) in the
\* control task and on DISARM, the four floats of the payload on THRUST
SetThrustRequest(t) ==
    IF t = "msg" /\ MsgType(msgBuf) = IKARUS_MSG_THRUST
    THEN [k \in 1..4 |-> MinTruncated(PayloadFloat(msgBuf, k))]
    ELSE << 0, 0, 0, 0 >>

\* C33: when a call setThrust(t1, t2, t3, t4) with every ti >= 0 returns,
\* ThrustCommand is (min(t1,300), min(t2,300), min(t3,300), min(t4,300))
\* truncated to integers.
C33_SetThrustResult ==
    [][ \A t \in {"sup", "msg"} :
          (pc[t] = "st4" /\ pc'[t] # "st4") => thrust' = SetThrustRequest(t) ]_vars

\* the frame the dispatcher holds after this step is a validated frame of type
\* t whose declared length fits the type
HoldsValid(types) ==
    /\ FrameValid(msgBuf')
    /\ ~Mismatched(msgBuf')
    /\ MsgType(msgBuf') \in types

\* C34: from the arrival of a validated PITCH, ROLL or YAW frame with a float
\* payload until the next frame arrives, only the setpoint field of that name
\* changes, and it is set to the float of the payload; from the arrival of a
\* validated MOTORn frame, only motor n of ThrustCommand changes.  The other
\* setpoint fields, the other motor values, the arm flag and the firmware
\* state stay as they are.
C34_SingleFieldCommands ==
    [][ /\ HoldsValid({IKARUS_MSG_PITCH, IKARUS_MSG_ROLL, IKARUS_MSG_YAW}) =>
            LET t == MsgType(msgBuf')
                value == PayloadFloat(msgBuf', 1)
            IN  /\ armed' = armed /\ firmware_state' = firmware_state
                /\ thrust' = thrust
                /\ t # IKARUS_MSG_PITCH => inputs'.pitch = inputs.pitch
                /\ t # IKARUS_MSG_ROLL => inputs'.roll = inputs.roll
                /\ t # IKARUS_MSG_YAW => inputs'.yaw = inputs.yaw
                /\ (pc.msg = "setp" /\ pc'.msg # "setp") =>
                      \/ t = IKARUS_MSG_PITCH /\ inputs'.pitch = value
                      \/ t = IKARUS_MSG_ROLL /\ inputs'.roll = value
                      \/ t = IKARUS_MSG_YAW /\ inputs'.yaw = value
        /\ HoldsValid({IKARUS_MSG_MOTOR1, IKARUS_MSG_MOTOR2, IKARUS_MSG_MOTOR3,
                       IKARUS_MSG_MOTOR4}) =>
            LET n == MsgType(msgBuf') - IKARUS_MSG_MOTOR1 + 1
            IN  /\ armed' = armed /\ firmware_state' = firmware_state
                /\ inputs' = inputs
                /\ \A k \in Motors \ {n} : thrust'[k] = thrust[k] ]_vars

\* MOTOR3 = 1.0 was handled after THRUST (2, 301, 0, 1), and then PITCH = 1.0:
\* motor 3 and the pitch setpoint changed, the rest is as it was
C34_Witness ==
    /\ thrust = << 2, 300, 1, 1 >>
    /\ inputs = [roll |-> F_0, pitch |-> F_1, yaw |-> F_0]
    /\ MsgType(msgBuf) = IKARUS_MSG_PITCH
    /\ pc.msg = "wait"

\* C35: while the dispatcher processes a validated ARMING frame of declared
\* length 1 whose payload byte is neither 0 nor 1, the arm flag and
\* ThrustCommand do not change, and it finishes the frame by sending an
\* error reply.
C35_InvalidArmingValue ==
    [][ ( /\ FrameValid(msgBuf)
          /\ MsgType(msgBuf) = IKARUS_MSG_ARMING
          /\ MsgPayloadLength(msgBuf) = 1
          /\ MsgPayload(msgBuf, 1) \notin {0, 1} /\ pc.msg # "wait" )
          => /\ armed' = armed
             /\ thrust' = thrust
             /\ pc'.msg = "wait" => (reply \in ErrReplies /\ Sends(reply)) ]_vars

\* the error reply for the arming value 2 is queued while the vehicle is
\* armed with a nonzero ThrustCommand
C35_Witness ==
    /\ MsgType(msgBuf) = IKARUS_MSG_ARMING
    /\ MsgPayload(msgBuf, 1) = 2
    /\ pc.msg = "wait"
    /\ txQueue # << >>
    /\ txQueue[Len(txQueue)] = "ERR: invalid arming value"
    /\ armed
    /\ thrust # Zeros

\* C36: the frames the transmit task has dequeued and those still queued are,
\* in order, the contents passed by the calls of UART_Send / UART_SendBinary
\* whose put was accepted: each frame is the content of exactly one call, none
\* is lost and none is there twice, also when the control task and the
\* dispatcher are in their calls at the same time.
C36_TransmitFrameIntegrity ==
    /\ Len(uart.put) = Len(uart.wire) + Len(uart.dma) + Len(txQueue)
    /\ \A k \in 1..Len(uart.put) : (uart.wire \o uart.dma \o txQueue)[k] = uart.put[k]

\* the k-th byte the host put on the line, as the DMA stored it
LineByte(k) == rxBuffer(k, (k - 1) % RX_BUFFER_SIZE)

\* uartRxBuffer is full / empty
RingFull == (uart.rx.ring.head + 1) % uart.rx.ring.size = uart.rx.ring.tail
RingEmpty == uart.rx.ring.head = uart.rx.ring.tail

\* C37: for every interleaving of the interrupt's puts and the task's gets,
\* the bytes returned by get are, in order, the first of the bytes accepted by
\* put; a put on a full ring buffer is refused and leaves the stored bytes and
\* head as they are, and a get on an empty ring buffer returns false, which
\* sends MessageTask back to its wait without a byte.
C37_RingBufferFifo ==
    [][ /\ Len(uart'.rx.got) <= Len(uart'.rx.accepted)
        /\ \A k \in 1..Len(uart'.rx.got) : uart'.rx.got[k] = uart'.rx.accepted[k]
        /\ (uart.rx.isr /\ RingFull) =>
              /\ uart'.rx.ring.buffer = uart.rx.ring.buffer
              /\ uart'.rx.ring.head = uart.rx.ring.head
              /\ uart'.rx.accepted = uart.rx.accepted
        /\ (pc.msg = "get" /\ pc'.msg # "get" /\ RingEmpty) =>
              /\ pc'.msg = "wait"
              /\ uart'.rx.got = uart.rx.got
              /\ uart'.rx.ring = uart.rx.ring ]_vars

\* a put was refused on the full ring buffer, MessageTask has taken bytes out
\* and head has wrapped around behind tail
C37_Witness ==
    /\ uart.rx.ring.overflow
    /\ uart.rx.got # << >>
    /\ uart.rx.ring.head < uart.rx.ring.tail
    /\ Len(uart.rx.accepted) > RX_RING_SIZE - 1

\* C38: MessageTask is never blocked in its wait, flag clear and no interrupt
\* pending or running, while the ring buffer holds a byte: in that situation
\* every accepted byte has been consumed.  The thread flag, once set by the
\* idle callback, stays set until the wait of MessageTask returns, also when
\* it was set while the task was draining.
C38_ReceiverProgress ==
    [][ /\ (pc'.msg = "wait" /\ ~uart'.rx.flag /\ ~uart'.rx.idle /\ ~uart'.rx.isr) =>
              /\ uart'.rx.ring.head = uart'.rx.ring.tail
              /\ uart'.rx.got = uart'.rx.accepted
        /\ (uart.rx.flag /\ ~uart'.rx.flag) => (pc.msg = "wait" /\ pc'.msg = "get") ]_vars

\* the idle callback has set the flag while MessageTask is between the two
\* parts of a get, with bytes already consumed
C38_Witness ==
    /\ pc.msg = "adv"
    /\ uart.rx.flag
    /\ ~uart.rx.isr
    /\ uart.rx.got # << >>
    /\ Len(uart.rx.accepted) > Len(uart.rx.got) + 1

\* C39: when an invocation of the idle callback ends, it has made one put for
\* each byte the DMA wrote since the previous invocation, and the bytes it
\* appended to the ring buffer are those bytes in arrival order.
C39_IdleCallbackTransfer ==
    [][ ((uart.rx.idle \/ uart.rx.isr) /\ ~uart'.rx.idle /\ ~uart'.rx.isr) =>
          LET n == uart.rx.count - uart.rx.seen
              a == uart'.rx.accepted
          IN  /\ (IF uart.rx.isr THEN uart.rx.i + 1 ELSE 0) = n
              /\ Len(a) >= n
              /\ \A k \in 1..n : a[Len(a) - n + k] = LineByte(uart.rx.seen + k) ]_vars

====
